---- MODULE Spec2Model ----
(***************************************************************************)
(* A model of the function-body translator of wasm2cretonne                *)
(* (lib/wasm2cretonne/src/code_translator.rs).                             *)
(*                                                                         *)
(* The translator is a single pass over the operators of one function body.*)
(* The model reads one operator per step, hands it to translate_operator   *)
(* or translate_unreachable_operator as the driver loop does, and runs the *)
(* epilogue of translate_function_body when the parser reports             *)
(* EndFunctionBody.  The operators are drawn from the bodies that WebAssembly *)
(* validation accepts (the translator trusts its parser): the variables    *)
(* vctrl and vheight run the validation algorithm of the WebAssembly       *)
(* specification beside the translation and guard the choice of the next   *)
(* operator.  The function's closing `end` is not delivered as an operator: *)
(* the driver pops the implicit function frame itself.                     *)
(*                                                                         *)
(* The IL builder (cton_frontend::FunctionBuilder) is a collaborator of the *)
(* translator.  Its operations are modelled on the builder record: EBBs with *)
(* formal parameters, an instruction list, a seal count and the pristine   *)
(* and filled flags, the current position and the layout.                  *)
(***************************************************************************)
EXTENDS Integers, Sequences, FiniteSets, TLC

\* ------------------------------------------------------------------ bounds
\* Operators of one function body, its `end`s not counted.
MaxOps == 5
\* Operators of one function body without control flow.
MaxCallOps == 6
\* Constructs (block/loop/if) open at the same time.
MaxDepth == 2
\* Height of the WebAssembly operand stack.
MaxStack == 2
\* Entries of a br_table (the default target not counted).
MaxTable == 2
\* Operators of a body of value operators, and the height of its stack.
MaxValueOps == 4
MaxValueStack == 3
\* Operators of a body of stack operators, and the height of its stack.
MaxStackOps == 4
MaxOperandStack == 3
\* Operators of a body with operators in unreachable code.
MaxSkipOps == 4
\* Functions with declared locals: the arguments of the signature, the
\* groups of locals, the locals of one group, and the operators of the body.
MaxArgs == 2
MaxGroups == 2
MaxCount == 2
MaxLocalOps == 2
\* Data sections: the segments of a section.
MaxSegments == 2

\* ------------------------------------------------------------------ helpers
Max(a, b) == IF a >= b THEN a ELSE b

Min(a, b) == IF a <= b THEN a ELSE b

Range(s) == {s[i] : i \in 1..Len(s)}

\* Vec::split_off(at): <<what stays, what is split off>>.
split_off(s, at) == <<SubSeq(s, 1, at), SubSeq(s, at + 1, Len(s))>>

\* Vec::truncate(len): no effect when the vector is already shorter.
truncate(s, len) == IF Len(s) > len THEN SubSeq(s, 1, len) ELSE s

\* The sequences over S of length at most n.
SeqUpTo(S, n) == UNION {[1..k -> S] : k \in 0..n}

\* The orders in which the elements of the finite set S can be visited.
Orders(S) == {o \in [1..Cardinality(S) -> S] : Range(o) = S}

\* ------------------------------------------------------------------ types
\* Block signatures of the binary format: an empty block type or one value
\* type.  One value type is enough for the control-flow translation, which
\* only counts values.
BlockTypes == {"EmptyBlock", "I32"}

\* translation_utils::type_to_type: Ok(type) for a value type, Err for the
\* empty block type.
type_to_type_ok(ty) == ty # "EmptyBlock"

\* translation_utils::translate_type: the vector of result types of a block
\* signature.
translate_type(ty) == IF ty = "EmptyBlock" THEN <<>> ELSE <<ty>>

\* ------------------------------------------------------------------ IL builder
NoEbb == 0

NoInst == <<0, 0>>

NoValue == 0

MkInst(opcode, cond, dest, args, table, res) ==
    [opcode |-> opcode, cond |-> cond, dest |-> dest, args |-> args,
     table |-> table, res |-> res, ty |-> "none", cc |-> "none", offset |-> 0]

\* An instruction with a controlling type: ty is the type of its result.
MkValueInst(opcode, ty, args, res) ==
    [MkInst(opcode, NoValue, NoEbb, args, <<>>, res) EXCEPT !.ty = ty]

\* Opcodes after which no instruction may follow in an EBB.  Cretonne's
\* br_table falls through when the index is out of range: it is a branch
\* and no terminator.
IsTerminator(opcode) == opcode \in {"jump", "return", "trap"}

IsBranch(opcode) == opcode \in {"jump", "brz", "brnz"}

EmptyEbb == [params |-> <<>>, insts |-> <<>>, sealed |-> 0,
             pristine |-> TRUE, filled |-> FALSE]

\* FunctionBuilder::new on a fresh Function.
NewBuilder == [ebbs |-> <<>>, cur |-> NoEbb, layout |-> <<>>, nvals |-> 0,
               visited |-> {}, ext_funcs |-> <<>>, signatures |-> <<>>,
               vars |-> <<>>, types |-> <<>>]

\* The instructions that name EBB e as a destination: the predecessors the
\* builder has declared for e.
BranchesTo(b, e) ==
    UNION {{<<x, i>> : i \in {j \in 1..Len(b.ebbs[x].insts) :
                LET inst == b.ebbs[x].insts[j]
                IN  \/ IsBranch(inst.opcode) /\ inst.dest = e
                    \/ inst.opcode = "br_table" /\ e \in Range(inst.table)}}
           : x \in 1..Len(b.ebbs)}

\* The Ebb that create_ebb will return.
next_ebb(b) == Len(b.ebbs) + 1

create_ebb(b) == [b EXCEPT !.ebbs = Append(@, EmptyEbb)]

\* n more formal parameters for EBB e, each a fresh value.
append_ebb_args(b, e, n) ==
    [b EXCEPT !.ebbs[e].params = @ \o [i \in 1..n |-> b.nvals + i],
              !.nvals = @ + n]

append_ebb_arg(b, e, ty) == append_ebb_args(b, e, 1)

ebb_args(b, e) == b.ebbs[e].params

\* FunctionBuilder::ebb_args_adjustement: while an EBB has no predecessor or
\* is pristine, the arguments of a branch to it (or the types given to
\* switch_to_block) that it has no formal parameter for are appended to it.
ebb_args_adjustement(b, dest, n) ==
    IF (BranchesTo(b, dest) = {} \/ b.ebbs[dest].pristine)
          /\ n > Len(b.ebbs[dest].params)
    THEN append_ebb_args(b, dest, n - Len(b.ebbs[dest].params))
    ELSE b

\* FuncInstBuilder::build: the instruction goes to the end of the current
\* EBB, which enters the layout with its first instruction; a branch adjusts
\* and declares its destination; a terminator fills the EBB.
ins(b, inst) ==
    LET e  == b.cur
        b1 == [b EXCEPT !.ebbs[e].pristine = FALSE,
                        !.layout = IF e \in Range(@) THEN @ ELSE Append(@, e),
                        !.nvals = @ + Len(inst.res)]
        b2 == IF IsBranch(inst.opcode)
              THEN ebb_args_adjustement(b1, inst.dest, Len(inst.args))
              ELSE b1
    IN  [b2 EXCEPT !.ebbs[e].insts = Append(@, inst),
                   !.ebbs[e].filled = @ \/ IsTerminator(inst.opcode)]

\* The handle of the instruction that ins(b, _) inserts.
next_inst(b) == <<b.cur, Len(b.ebbs[b.cur].insts) + 1>>

\* The value that an instruction with one result, inserted next, defines.
next_value(b) == b.nvals + 1

switch_to_block(b, e, tys) ==
    ebb_args_adjustement([b EXCEPT !.cur = e, !.visited = @ \cup {e}],
                         e, Len(tys))

seal_block(b, e) == [b EXCEPT !.ebbs[e].sealed = @ + 1]

change_jump_destination(b, inst, e) ==
    [b EXCEPT !.ebbs[inst[1]].insts[inst[2]].dest = e]

is_filled(b) == b.ebbs[b.cur].filled

is_pristine(b) == b.ebbs[b.cur].pristine

\* FunctionBuilder::is_unreachable: the current EBB is sealed and has no
\* predecessor, and is not the entry block of the layout (an EBB is in the
\* layout from its first instruction on).
is_unreachable(b) ==
    /\ ~(Len(b.layout) > 0 /\ b.layout[1] = b.cur)
    /\ b.ebbs[b.cur].sealed > 0
    /\ BranchesTo(b, b.cur) = {}

\* ------------------------------------------------------------------ control stack
\* ControlStackFrame: kind is "If", "Block" or "Loop"; header is set for a
\* Loop and branch_inst for an If.
IfFrame(destination, branch_inst, return_values, original_stack_size) ==
    [kind |-> "If", destination |-> destination, header |-> NoEbb,
     branch_inst |-> branch_inst, return_values |-> return_values,
     original_stack_size |-> original_stack_size]

BlockFrame(destination, return_values, original_stack_size) ==
    [kind |-> "Block", destination |-> destination, header |-> NoEbb,
     branch_inst |-> NoInst, return_values |-> return_values,
     original_stack_size |-> original_stack_size]

LoopFrame(destination, header, return_values, original_stack_size) ==
    [kind |-> "Loop", destination |-> destination, header |-> header,
     branch_inst |-> NoInst, return_values |-> return_values,
     original_stack_size |-> original_stack_size]

return_values(frame) == frame.return_values

following_code(frame) == frame.destination

br_destination(frame) ==
    IF frame.kind = "Loop" THEN frame.header ELSE frame.destination

original_stack_size(frame) == frame.original_stack_size

is_loop(frame) == frame.kind = "Loop"

\* control_stack[control_stack.len() - 1 - relative_depth]
FrameAt(cs, relative_depth) == cs[Len(cs) - relative_depth]

\* ------------------------------------------------------------------ translation
\* The data one operator is translated on: the value stack, the control
\* stack, the TranslationState and the builder.  panicked records that the
\* handler hit an unwrap of None, an index out of bounds or an unsigned
\* subtraction below zero, which abort the translation.
Panic(t) == [t EXCEPT !.panicked = TRUE]

\* The module's tables as translate_function_body receives them.  Function
\* and signature indices count from 1 here.  functions: the signature index
\* of every function; signatures: the signatures of the type section.
ModuleFunctions == <<1, 1, 2>>

ModuleSignatures ==
    <<[argument_types |-> <<>>, return_types |-> <<"I32">>],
      [argument_types |-> <<"I32">>, return_types |-> <<>>]>>

\* FunctionImports::new
NewFunctionImports == [functions |-> <<>>, signatures |-> <<>>]

\* HashMap::get(key).is_some() and HashMap::insert(key, value) on a map kept
\* as a sequence of <<key, value>> pairs.
map_has(m, key) == \E i \in 1..Len(m) : m[i][1] = key

map_get(m, key) == m[CHOOSE i \in 1..Len(m) : m[i][1] = key][2]

map_insert(m, key, value) ==
    IF map_has(m, key)
    THEN [i \in 1..Len(m) |-> IF m[i][1] = key THEN <<key, value>> ELSE m[i]]
    ELSE Append(m, <<key, value>>)

\* FunctionBuilder::import_signature: the SigRef is the position of the new
\* entry in the function's signature table.
import_signature(b, signature) == [b EXCEPT !.signatures = Append(@, signature)]

next_sigref(b) == Len(b.signatures) + 1

\* FunctionBuilder::import_function: the FuncRef is the position of the new
\* entry in the function's table of external functions.
import_function(b, data) == [b EXCEPT !.ext_funcs = Append(@, data)]

next_funcref(b) == Len(b.ext_funcs) + 1

\* A find_function_import that does not look the function index up in
\* func_imports.functions before it imports the function.
find_function_import_uncached(t, index) ==
    LET sig_index == ModuleFunctions[index] IN
    IF map_has(t.func_imports.signatures, sig_index)
    THEN
        LET local_sig_index  == map_get(t.func_imports.signatures, sig_index)
            local_func_index == next_funcref(t.builder)
        IN  [t |-> [t EXCEPT
                      !.builder = import_function(@, [signature |-> local_sig_index]),
                      !.imported.functions = Append(@, index),
                      !.func_imports.functions = map_insert(@, index, local_func_index)],
             ref |-> local_func_index]
    ELSE
        LET sig_local_index  == next_sigref(t.builder)
            local_func_index == next_funcref(t.builder)
        IN  [t |-> [t EXCEPT
                      !.builder = import_function(
                                      import_signature(@, ModuleSignatures[sig_index]),
                                      [signature |-> sig_local_index]),
                      !.imported.signatures = Append(@, sig_index),
                      !.imported.functions = Append(@, index),
                      !.func_imports.signatures = map_insert(@, sig_index, sig_local_index),
                      !.func_imports.functions = map_insert(@, index, local_func_index)],
             ref |-> local_func_index]

\* find_function_import and find_signature_import return the reference and
\* change the builder and func_imports: the result is [t, ref].  imported
\* keeps, for every call of import_function and of import_signature, the
\* WebAssembly index it was made for.
find_function_import(t, index) ==
    IF map_has(t.func_imports.functions, index)
    THEN [t |-> t, ref |-> map_get(t.func_imports.functions, index)]
    ELSE
    LET sig_index == ModuleFunctions[index] IN
    IF map_has(t.func_imports.signatures, sig_index)
    THEN
        LET local_sig_index  == map_get(t.func_imports.signatures, sig_index)
            local_func_index == next_funcref(t.builder)
        IN  [t |-> [t EXCEPT
                      !.builder = import_function(@, [signature |-> local_sig_index]),
                      !.imported.functions = Append(@, index),
                      !.func_imports.functions = map_insert(@, index, local_func_index)],
             ref |-> local_func_index]
    ELSE
        LET sig_local_index  == next_sigref(t.builder)
            local_func_index == next_funcref(t.builder)
        IN  [t |-> [t EXCEPT
                      !.builder = import_function(
                                      import_signature(@, ModuleSignatures[sig_index]),
                                      [signature |-> sig_local_index]),
                      !.imported.signatures = Append(@, sig_index),
                      !.imported.functions = Append(@, index),
                      !.func_imports.signatures = map_insert(@, sig_index, sig_local_index),
                      !.func_imports.functions = map_insert(@, index, local_func_index)],
             ref |-> local_func_index]

find_signature_import(t, sig_index) ==
    IF map_has(t.func_imports.signatures, sig_index)
    THEN [t |-> t, ref |-> map_get(t.func_imports.signatures, sig_index)]
    ELSE
    LET sig_local_index == next_sigref(t.builder)
    IN  [t |-> [t EXCEPT
                  !.builder = import_signature(@, ModuleSignatures[sig_index]),
                  !.imported.signatures = Append(@, sig_index),
                  !.func_imports.signatures = map_insert(@, sig_index, sig_local_index)],
         ref |-> sig_local_index]

args_count(index) == Len(ModuleSignatures[ModuleFunctions[index]].argument_types)

\* The values an instruction with n results, inserted next, defines.
next_values(b, n) == [i \in 1..n |-> b.nvals + i]

Op_Call(t, function_index) ==
    LET args_num == args_count(function_index) IN
    IF Len(t.stack) < args_num THEN Panic(t) ELSE
    LET parts == split_off(t.stack, Len(t.stack) - args_num)
        found == find_function_import(t, function_index)
        b1    == found.t.builder
        callee == b1.signatures[b1.ext_funcs[found.ref].signature]
        ret_values == next_values(b1, Len(callee.return_types))
    IN  [found.t EXCEPT
            !.builder = ins(b1, MkInst("call", found.ref, NoEbb, parts[2], <<>>,
                                       ret_values)),
            !.stack = parts[1] \o ret_values]

\* runtime.translate_call_indirect is the runtime's: it is taken to insert
\* one call_indirect instruction and to return its results.
Op_CallIndirect(t, index) ==
    LET found    == find_signature_import(t, index)
        b1       == found.t.builder
        args_num == Len(b1.signatures[found.ref].argument_types)
    IN
    IF Len(t.stack) < 1 + args_num THEN Panic(found.t) ELSE
    LET index_val == t.stack[Len(t.stack)]
        stack1    == SubSeq(t.stack, 1, Len(t.stack) - 1)
        parts     == split_off(stack1, Len(stack1) - args_num)
        ret_values == next_values(b1, Len(b1.signatures[found.ref].return_types))
    IN  [found.t EXCEPT
            !.builder = ins(b1, MkInst("call_indirect", found.ref, NoEbb,
                                       <<index_val>> \o parts[2], <<>>, ret_values)),
            !.stack = parts[1] \o ret_values]

\* Operators that push one fresh value (i32.const).
Op_Const(t) ==
    LET val == next_value(t.builder)
    IN  [t EXCEPT !.builder = ins(@, MkValueInst("iconst", "I32", <<>>, <<val>>)),
                  !.stack = Append(@, val)]

\* ------------------------------------------------------------------ value operators
\* The type the data flow graph keeps for a value: the controlling type of
\* the instruction that defines it.  The EBB parameters of this model are I32.
value_type(b, v) ==
    LET defs == UNION {{inst \in Range(b.ebbs[e].insts) : v \in Range(inst.res)}
                       : e \in 1..Len(b.ebbs)}
    IN  IF defs = {} THEN "I32" ELSE (CHOOSE inst \in defs : TRUE).ty

\* Insert an instruction with one result and return [builder, val].
ins_value(b, opcode, ty, args) ==
    [builder |-> ins(b, MkValueInst(opcode, ty, args, <<next_value(b)>>)),
     val |-> next_value(b)]

\* i64.const, f32.const and f64.const: what the arm emits.
const_lowering(name) ==
    CASE name = "I64Const" -> [opcode |-> "iconst",   ty |-> "I64"]
      [] name = "F32Const" -> [opcode |-> "f32const", ty |-> "F32"]
      [] name = "F64Const" -> [opcode |-> "f64const", ty |-> "F64"]

Op_ConstOf(t, name) ==
    LET r == ins_value(t.builder, const_lowering(name).opcode,
                       const_lowering(name).ty, <<>>)
    IN  [t EXCEPT !.builder = r.builder, !.stack = Append(@, r.val)]

\* A select that passes its operands in the order they were pushed.
Op_Select_push_order(t) ==
    IF Len(t.stack) < 3 THEN Panic(t) ELSE
    LET n    == Len(t.stack)
        cond == t.stack[n]
        arg2 == t.stack[n - 1]
        arg1 == t.stack[n - 2]
        r    == ins_value(t.builder, "select", value_type(t.builder, arg2),
                          <<cond, arg1, arg2>>)
    IN  [t EXCEPT !.builder = r.builder,
                  !.stack = Append(SubSeq(@, 1, n - 3), r.val)]

Op_Select(t) ==
    IF Len(t.stack) < 3 THEN Panic(t) ELSE
    LET n    == Len(t.stack)
        cond == t.stack[n]
        arg2 == t.stack[n - 1]
        arg1 == t.stack[n - 2]
        r    == ins_value(t.builder, "select", value_type(t.builder, arg2),
                          <<cond, arg2, arg1>>)
    IN  [t EXCEPT !.builder = r.builder,
                  !.stack = Append(SubSeq(@, 1, n - 3), r.val)]

\* The 16-bit loads: the load instruction and the result type of each arm.
load_lowering(name) ==
    CASE name = "I32Load16U" -> [opcode |-> "uload8",  ty |-> "I32"]
      [] name = "I32Load16S" -> [opcode |-> "sload8",  ty |-> "I32"]
      [] name = "I64Load16U" -> [opcode |-> "uload16", ty |-> "I64"]
      [] name = "I64Load16S" -> [opcode |-> "sload16", ty |-> "I64"]

\* runtime.translate_memory_base_adress is the runtime's: it is taken to
\* insert one instruction that defines the I64 base address.
Op_Load(t, name, offset) ==
    IF Len(t.stack) = 0 THEN Panic(t) ELSE
    LET address_i32 == t.stack[Len(t.stack)]
        base        == ins_value(t.builder, "memory_base", "I64", <<>>)
        address_i64 == ins_value(base.builder, "uextend", "I64", <<address_i32>>)
        addr        == ins_value(address_i64.builder, "iadd", "I64",
                                 <<base.val, address_i64.val>>)
        val         == next_value(addr.builder)
        load        == [MkValueInst(load_lowering(name).opcode,
                                    load_lowering(name).ty, <<addr.val>>, <<val>>)
                          EXCEPT !.offset = offset]
    IN  [t EXCEPT !.builder = ins(addr.builder, load),
                  !.stack = Append(SubSeq(@, 1, Len(@) - 1), val)]

\* clz, ctz and popcnt: the counting instruction and the type of the
\* sextend of each arm.
count_lowering(name) ==
    CASE name = "I32Clz"    -> [opcode |-> "clz",    ty |-> "I32"]
      [] name = "I64Clz"    -> [opcode |-> "clz",    ty |-> "I64"]
      [] name = "I32Ctz"    -> [opcode |-> "ctz",    ty |-> "I32"]
      [] name = "I64Ctz"    -> [opcode |-> "ctz",    ty |-> "I64"]
      [] name = "I32Popcnt" -> [opcode |-> "popcnt", ty |-> "I32"]
      [] name = "I64Popcnt" -> [opcode |-> "popcnt", ty |-> "I64"]

Op_Count(t, name) ==
    IF Len(t.stack) = 0 THEN Panic(t) ELSE
    LET arg == t.stack[Len(t.stack)]
        val == ins_value(t.builder, count_lowering(name).opcode,
                         value_type(t.builder, arg), <<arg>>)
        ext == ins_value(val.builder, "sextend", count_lowering(name).ty, <<val.val>>)
    IN  [t EXCEPT !.builder = ext.builder,
                  !.stack = Append(SubSeq(@, 1, Len(@) - 1), ext.val)]

\* The condition code of each comparison arm.
int_cc(name) ==
    CASE name \in {"I32LtS", "I64LtS"} -> "SignedLessThan"
      [] name \in {"I32LtU", "I64LtU"} -> "UnsignedLessThan"
      [] name \in {"I32LeS", "I64LeS"} -> "SignedLessThanOrEqual"
      [] name \in {"I32LeU", "I64LeU"} -> "UnsignedLessThanOrEqual"
      [] name \in {"I32GtS", "I64GtS"} -> "SignedGreaterThan"
      [] name \in {"I32GtU", "I64GtU"} -> "UnsignedGreaterThan"
      [] name \in {"I32GeS", "I64GeS"} -> "SignedGreaterThanOrEqual"
      [] name \in {"I32GeU", "I64GeU"} -> "UnsignedGreaterThanOrEqual"
      [] name \in {"I32Eq", "I64Eq"}   -> "Equal"
      [] name \in {"I32Ne", "I64Ne"}   -> "NotEqual"

float_cc(name) ==
    CASE name \in {"F32Eq", "F64Eq"} -> "Equal"
      [] name \in {"F32Ne", "F64Ne"} -> "NotEqual"
      [] name \in {"F32Gt", "F64Gt"} -> "GreaterThan"
      [] name \in {"F32Ge", "F64Ge"} -> "GreaterThanOrEqual"
      [] name \in {"F32Lt", "F64Lt"} -> "LessThan"
      [] name \in {"F32Le", "F64Le"} -> "LessThanOrEqual"

I32CompareNames ==
    {"I32LtS", "I32LtU", "I32LeS", "I32LeU", "I32GtS", "I32GtU", "I32GeS",
     "I32GeU", "I32Eq", "I32Ne"}

I64CompareNames ==
    {"I64LtS", "I64LtU", "I64LeS", "I64LeU", "I64GtS", "I64GtU", "I64GeS",
     "I64GeU", "I64Eq", "I64Ne"}

F32CompareNames == {"F32Eq", "F32Ne", "F32Gt", "F32Ge", "F32Lt", "F32Le"}

F64CompareNames == {"F64Eq", "F64Ne", "F64Gt", "F64Ge", "F64Lt", "F64Le"}

IntCompareNames == I32CompareNames \cup I64CompareNames

FloatCompareNames == F32CompareNames \cup F64CompareNames

ConstNames == {"I64Const", "F32Const", "F64Const"}

LoadNames == {"I32Load16U", "I32Load16S", "I64Load16U", "I64Load16S"}

CountNames == {"I32Clz", "I64Clz", "I32Ctz", "I64Ctz", "I32Popcnt", "I64Popcnt"}

EqzNames == {"I32Eqz", "I64Eqz"}

\* A comparison that sign-extends the result of the icmp or fcmp.
Op_Compare_sextend(t, opcode, cc) ==
    IF Len(t.stack) < 2 THEN Panic(t) ELSE
    LET n    == Len(t.stack)
        arg2 == t.stack[n]
        arg1 == t.stack[n - 1]
        val  == next_value(t.builder)
        cmp  == [MkValueInst(opcode, "B1", <<arg1, arg2>>, <<val>>) EXCEPT !.cc = cc]
        int  == ins_value(ins(t.builder, cmp), "sextend", "I32", <<val>>)
    IN  [t EXCEPT !.builder = int.builder,
                  !.stack = Append(SubSeq(@, 1, n - 2), int.val)]

\* The comparison arms: icmp or fcmp of arg1 and arg2, then bint(I32, val).
Op_Compare(t, opcode, cc) ==
    IF Len(t.stack) < 2 THEN Panic(t) ELSE
    LET n    == Len(t.stack)
        arg2 == t.stack[n]
        arg1 == t.stack[n - 1]
        val  == next_value(t.builder)
        cmp  == [MkValueInst(opcode, "B1", <<arg1, arg2>>, <<val>>) EXCEPT !.cc = cc]
        int  == ins_value(ins(t.builder, cmp), "bint", "I32", <<val>>)
    IN  [t EXCEPT !.builder = int.builder,
                  !.stack = Append(SubSeq(@, 1, n - 2), int.val)]

\* icmp_imm(IntCC::Equal, arg, 0), then bint(I32, val).
Op_Eqz(t) ==
    IF Len(t.stack) = 0 THEN Panic(t) ELSE
    LET arg == t.stack[Len(t.stack)]
        val == next_value(t.builder)
        cmp == [MkValueInst("icmp_imm", "B1", <<arg>>, <<val>>) EXCEPT !.cc = "Equal"]
        int == ins_value(ins(t.builder, cmp), "bint", "I32", <<val>>)
    IN  [t EXCEPT !.builder = int.builder,
                  !.stack = Append(SubSeq(@, 1, Len(@) - 1), int.val)]

\* FunctionBuilder::def_var and use_var on the variables Local(index), kept
\* as <<index, value>> pairs.  In code without a join of two control-flow
\* paths use_var returns the value of the last def_var and defines nothing.
def_var(b, var, val) == [b EXCEPT !.vars = map_insert(@, var, val)]

\* FunctionBuilder::declare_var: the type of the variable is recorded.
declare_var(b, var, ty) == [b EXCEPT !.types = map_insert(@, var, ty)]

use_var(b, var) == map_get(b.vars, var)

Op_GetLocal(t, local_index) ==
    [t EXCEPT !.stack = Append(@, use_var(t.builder, local_index))]

Op_SetLocal(t, local_index) ==
    IF Len(t.stack) = 0 THEN Panic(t) ELSE
    [t EXCEPT !.builder = def_var(@, local_index, t.stack[Len(t.stack)]),
              !.stack = SubSeq(@, 1, Len(@) - 1)]

\* A tee_local that pops the value it stores.
Op_TeeLocal_popping(t, local_index) == Op_SetLocal(t, local_index)

Op_TeeLocal(t, local_index) ==
    IF Len(t.stack) = 0 THEN Panic(t) ELSE
    [t EXCEPT !.builder = def_var(@, local_index, t.stack[Len(t.stack)])]

StoreNames == {"I32Store", "I32Store8", "I32Store16"}

\* The store instruction of each store arm.
store_lowering(name) ==
    CASE name = "I32Store"   -> "store"
      [] name = "I32Store8"  -> "istore8"
      [] name = "I32Store16" -> "istore16"

Op_Store(t, name, offset) ==
    IF Len(t.stack) < 2 THEN Panic(t) ELSE
    LET n           == Len(t.stack)
        val         == t.stack[n]
        address_i32 == t.stack[n - 1]
        base        == ins_value(t.builder, "memory_base", "I64", <<>>)
        address_i64 == ins_value(base.builder, "uextend", "I64", <<address_i32>>)
        addr        == ins_value(address_i64.builder, "iadd", "I64",
                                 <<base.val, address_i64.val>>)
        store       == [MkInst(store_lowering(name), NoValue, NoEbb,
                               <<val, addr.val>>, <<>>, <<>>)
                          EXCEPT !.offset = offset]
    IN  [t EXCEPT !.builder = ins(addr.builder, store),
                  !.stack = SubSeq(@, 1, n - 2)]

\* stack.pop() without unwrap.
Op_Drop(t) ==
    [t EXCEPT !.stack = IF Len(@) = 0 THEN @ ELSE SubSeq(@, 1, Len(@) - 1)]

Op_Unreachable(t) ==
    [t EXCEPT !.builder = ins(@, MkInst("trap", NoValue, NoEbb, <<>>, <<>>, <<>>)),
              !.state.real_unreachable_stack_depth = 1]

\* A block whose destination EBB is left without parameter.
Op_Block_bare(t, ty) ==
    LET next == next_ebb(t.builder)
    IN  [t EXCEPT !.builder = create_ebb(t.builder),
                  !.control_stack =
                      Append(@, BlockFrame(next, translate_type(ty), Len(t.stack)))]

Op_Block(t, ty) ==
    LET next == next_ebb(t.builder)
        b1   == create_ebb(t.builder)
        b2   == IF type_to_type_ok(ty) THEN append_ebb_arg(b1, next, ty) ELSE b1
    IN  [t EXCEPT !.builder = b2,
                  !.control_stack =
                      Append(@, BlockFrame(next, translate_type(ty), Len(t.stack)))]

\* A loop that seals its header as soon as it has switched to it, before the
\* back edges of the loop body are known.
Op_Loop_sealed_early(t, ty) ==
    LET loop_body == next_ebb(t.builder)
        next      == loop_body + 1
        b1 == create_ebb(create_ebb(t.builder))
        b2 == IF type_to_type_ok(ty) THEN append_ebb_arg(b1, next, ty) ELSE b1
        b3 == ins(b2, MkInst("jump", NoValue, loop_body, <<>>, <<>>, <<>>))
    IN  [t EXCEPT !.builder = seal_block(switch_to_block(b3, loop_body, <<>>),
                                         loop_body),
                  !.control_stack =
                      Append(@, LoopFrame(next, loop_body, translate_type(ty),
                                          Len(t.stack)))]

Op_Loop(t, ty) ==
    LET loop_body == next_ebb(t.builder)
        next      == loop_body + 1
        b1 == create_ebb(create_ebb(t.builder))
        b2 == IF type_to_type_ok(ty) THEN append_ebb_arg(b1, next, ty) ELSE b1
        b3 == ins(b2, MkInst("jump", NoValue, loop_body, <<>>, <<>>, <<>>))
    IN  [t EXCEPT !.builder = switch_to_block(b3, loop_body, <<>>),
                  !.control_stack =
                      Append(@, LoopFrame(next, loop_body, translate_type(ty),
                                          Len(t.stack)))]

Op_If(t, ty) ==
    IF Len(t.stack) = 0 THEN Panic(t) ELSE
    LET val    == t.stack[Len(t.stack)]
        stack1 == SubSeq(t.stack, 1, Len(t.stack) - 1)
        if_not == next_ebb(t.builder)
        b1 == create_ebb(t.builder)
        jump_inst == next_inst(b1)
        b2 == ins(b1, MkInst("brz", val, if_not, <<>>, <<>>, <<>>))
        b3 == IF type_to_type_ok(ty) THEN append_ebb_arg(b2, if_not, ty) ELSE b2
    IN  [t EXCEPT !.builder = b3,
                  !.stack = stack1,
                  !.control_stack =
                      Append(@, IfFrame(if_not, jump_inst, translate_type(ty),
                                        Len(stack1)))]

\* An `else` that jumps to the destination without arguments and leaves the
\* result of the then-branch on the value stack.
Op_Else_keeping_result(t) ==
    LET frame == FrameAt(t.control_stack, 0) IN
    IF frame.kind # "If" THEN Panic(t) ELSE
    LET b1 == ins(t.builder, MkInst("jump", NoValue, frame.destination, <<>>, <<>>, <<>>))
        else_ebb == next_ebb(b1)
        b2 == change_jump_destination(create_ebb(b1), frame.branch_inst, else_ebb)
    IN  [t EXCEPT !.builder = switch_to_block(seal_block(b2, else_ebb), else_ebb, <<>>)]

Op_Else(t) ==
    LET frame == FrameAt(t.control_stack, 0) IN
    IF frame.kind # "If" \/ Len(t.stack) < Len(frame.return_values)
    THEN Panic(t) ELSE
    LET cut_index == Len(t.stack) - Len(frame.return_values)
        parts     == split_off(t.stack, cut_index)
        b1 == ins(t.builder, MkInst("jump", NoValue, frame.destination, parts[2], <<>>, <<>>))
        else_ebb == next_ebb(b1)
        b2 == change_jump_destination(create_ebb(b1), frame.branch_inst, else_ebb)
    IN  [t EXCEPT !.builder = switch_to_block(seal_block(b2, else_ebb), else_ebb, <<>>),
                  !.stack = parts[1]]

\* An `end` that leaves the jump arguments on the stack instead of the
\* parameters of the destination EBB.
Op_End_raw_arguments(t) ==
    IF Len(t.control_stack) = 0 THEN Panic(t) ELSE
    LET frame == FrameAt(t.control_stack, 0)
        emit  == ~is_unreachable(t.builder) \/ ~is_pristine(t.builder)
    IN
    IF emit /\ Len(t.stack) < Len(return_values(frame)) THEN Panic(t) ELSE
    LET cut_index == Len(t.stack) - Len(return_values(frame))
        parts  == split_off(t.stack, cut_index)
        stack1 == IF emit THEN parts[1] ELSE t.stack
        b1 == IF emit
              THEN ins(t.builder, MkInst("jump", NoValue, following_code(frame),
                                         parts[2], <<>>, <<>>))
              ELSE t.builder
        b2 == seal_block(switch_to_block(b1, following_code(frame), return_values(frame)),
                         following_code(frame))
        b3 == IF frame.kind = "Loop" THEN seal_block(b2, frame.header) ELSE b2
    IN  [t EXCEPT !.builder = b3,
                  !.control_stack = SubSeq(@, 1, Len(@) - 1),
                  !.stack = truncate(stack1, original_stack_size(frame))
                               \o (IF emit THEN parts[2] ELSE <<>>)]

Op_End(t) ==
    IF Len(t.control_stack) = 0 THEN Panic(t) ELSE
    LET frame == FrameAt(t.control_stack, 0)
        emit  == ~is_unreachable(t.builder) \/ ~is_pristine(t.builder)
    IN
    IF emit /\ Len(t.stack) < Len(return_values(frame)) THEN Panic(t) ELSE
    LET cut_index == Len(t.stack) - Len(return_values(frame))
        parts  == split_off(t.stack, cut_index)
        stack1 == IF emit THEN parts[1] ELSE t.stack
        b1 == IF emit
              THEN ins(t.builder, MkInst("jump", NoValue, following_code(frame),
                                         parts[2], <<>>, <<>>))
              ELSE t.builder
        b2 == seal_block(switch_to_block(b1, following_code(frame), return_values(frame)),
                         following_code(frame))
        b3 == IF frame.kind = "Loop" THEN seal_block(b2, frame.header) ELSE b2
    IN  [t EXCEPT !.builder = b3,
                  !.control_stack = SubSeq(@, 1, Len(@) - 1),
                  !.stack = truncate(stack1, original_stack_size(frame))
                               \o ebb_args(b3, following_code(frame))]

\* The smallest of the default depth and the depths of the table.
min_depth_of(depths, default) ==
    CHOOSE m \in Range(depths) \cup {default} :
        \A d \in Range(depths) \cup {default} : m <= d

\* A br that unwinds the value stack down to the height the target frame
\* was entered at, as the WebAssembly semantics of br does.
Op_Br_unwinding(t, relative_depth) ==
    IF relative_depth >= Len(t.control_stack) THEN Panic(t) ELSE
    LET frame == FrameAt(t.control_stack, relative_depth) IN
    IF ~is_loop(frame) /\ Len(t.stack) < Len(return_values(frame)) THEN Panic(t) ELSE
    LET cut_index == Len(t.stack) - Len(return_values(frame))
        parts     == IF is_loop(frame) THEN <<t.stack, <<>>>>
                                       ELSE split_off(t.stack, cut_index)
    IN  [t EXCEPT !.builder = ins(@, MkInst("jump", NoValue, br_destination(frame),
                                            parts[2], <<>>, <<>>)),
                  !.stack = truncate(parts[1], original_stack_size(frame)),
                  !.state.real_unreachable_stack_depth = 1 + relative_depth]

\* A br that counts one level more than the frames it leaves.
Op_Br_one_more_level(t, relative_depth) ==
    IF relative_depth >= Len(t.control_stack) THEN Panic(t) ELSE
    LET frame == FrameAt(t.control_stack, relative_depth)
        parts == IF is_loop(frame)
                 THEN <<t.stack, <<>>>>
                 ELSE split_off(t.stack, Len(t.stack) - Len(return_values(frame)))
    IN  [t EXCEPT !.builder = ins(@, MkInst("jump", NoValue, br_destination(frame),
                                            parts[2], <<>>, <<>>)),
                  !.stack = parts[1],
                  !.state.real_unreachable_stack_depth = 2 + relative_depth]

\* A br that declares one level unreachable, whatever its depth.
Op_Br_one_level(t, relative_depth) ==
    LET frame == FrameAt(t.control_stack, relative_depth)
        parts == IF is_loop(frame)
                 THEN <<t.stack, <<>>>>
                 ELSE split_off(t.stack, Len(t.stack) - Len(return_values(frame)))
    IN  [t EXCEPT !.builder = ins(@, MkInst("jump", NoValue, br_destination(frame),
                                            parts[2], <<>>, <<>>)),
                  !.stack = parts[1],
                  !.state.real_unreachable_stack_depth = 1]

Op_Br(t, relative_depth) ==
    IF relative_depth >= Len(t.control_stack) THEN Panic(t) ELSE
    LET frame == FrameAt(t.control_stack, relative_depth) IN
    IF ~is_loop(frame) /\ Len(t.stack) < Len(return_values(frame)) THEN Panic(t) ELSE
    LET cut_index == Len(t.stack) - Len(return_values(frame))
        parts     == IF is_loop(frame) THEN <<t.stack, <<>>>>
                                       ELSE split_off(t.stack, cut_index)
    IN  [t EXCEPT !.builder = ins(@, MkInst("jump", NoValue, br_destination(frame),
                                            parts[2], <<>>, <<>>)),
                  !.stack = parts[1],
                  !.state.real_unreachable_stack_depth = 1 + relative_depth]

Op_BrIf(t, relative_depth) ==
    IF Len(t.stack) = 0 \/ relative_depth >= Len(t.control_stack) THEN Panic(t) ELSE
    LET val    == t.stack[Len(t.stack)]
        stack1 == SubSeq(t.stack, 1, Len(t.stack) - 1)
        frame  == FrameAt(t.control_stack, relative_depth)
    IN
    IF Len(stack1) < Len(return_values(frame)) THEN Panic(t) ELSE
    LET cut_index == Len(stack1) - Len(return_values(frame))
        parts     == split_off(stack1, cut_index)
    IN  [t EXCEPT !.builder = ins(@, MkInst("brnz", val, br_destination(frame),
                                            parts[2], <<>>, <<>>)),
                  !.stack = parts[1] \o parts[2]]

\* The jump table of a br_table without jump arguments: entry index goes to
\* the branch destination of the frame at depths[index].
direct_table(cs, depths) ==
    [i \in 1..Len(depths) |-> br_destination(FrameAt(cs, depths[i]))]

\* The fold that builds dest_ebbs: the positions of depths at which a depth
\* occurs for the first time, in order; each gets a fresh EBB.
first_at(depths) ==
    {i \in 1..Len(depths) : \A j \in 1..(i - 1) : depths[j] # depths[i]}

\* dest_ebbs[depth]: the k-th depth seen for the first time gets the k-th EBB
\* created after `base`.
dest_ebb_of(depths, base, depth) ==
    LET i == CHOOSE j \in first_at(depths) : depths[j] = depth
    IN  base + Cardinality({j \in first_at(depths) : j <= i})

split_table(depths, base) ==
    [i \in 1..Len(depths) |-> dest_ebb_of(depths, base, depths[i])]

\* n times create_ebb.
RECURSIVE create_ebbs(_, _)
create_ebbs(b, n) == IF n = 0 THEN b ELSE create_ebbs(create_ebb(b), n - 1)

\* The loop over dest_ebbs without its seal_block(dest_ebb).
RECURSIVE fill_dest_ebbs_unsealed(_, _, _, _, _, _)
fill_dest_ebbs_unsealed(b, cs, depths, base, jump_args, order) ==
    IF order = <<>> THEN b ELSE
    LET depth    == Head(order)
        dest_ebb == dest_ebb_of(depths, base, depth)
        b1 == switch_to_block(b, dest_ebb, <<>>)
        real_dest_ebb == br_destination(FrameAt(cs, depth))
        b2 == ins(b1, MkInst("jump", NoValue, real_dest_ebb, jump_args, <<>>, <<>>))
    IN  fill_dest_ebbs_unsealed(b2, cs, depths, base, jump_args, Tail(order))

\* The loop over dest_ebbs, a HashMap: `order` is the order in which the
\* iteration visits the depths.
RECURSIVE fill_dest_ebbs(_, _, _, _, _, _)
fill_dest_ebbs(b, cs, depths, base, jump_args, order) ==
    IF order = <<>> THEN b ELSE
    LET depth    == Head(order)
        dest_ebb == dest_ebb_of(depths, base, depth)
        b1 == seal_block(switch_to_block(b, dest_ebb, <<>>), dest_ebb)
        real_dest_ebb == br_destination(FrameAt(cs, depth))
        b2 == ins(b1, MkInst("jump", NoValue, real_dest_ebb, jump_args, <<>>, <<>>))
    IN  fill_dest_ebbs(b2, cs, depths, base, jump_args, Tail(order))

\* What the loop over dest_ebbs inserts into br_table_reachable_ebbs.
split_reachable_ebbs(depths, base) ==
    {dest_ebb_of(depths, base, d) : d \in Range(depths)}

\* What the br_table without jump arguments inserts.
direct_reachable_ebbs(cs, depths) ==
    {br_destination(FrameAt(cs, d)) : d \in Range(depths)}

Op_BrTable(t, depths, default, order) ==
    IF \E d \in Range(depths) \cup {default} : d >= Len(t.control_stack)
    THEN Panic(t) ELSE
    LET min_depth == min_depth_of(depths, default)
        jump_args_count == Len(return_values(FrameAt(t.control_stack, min_depth)))
        cs == t.control_stack
    IN
    IF Len(t.stack) = 0 THEN Panic(t) ELSE
    LET val    == t.stack[Len(t.stack)]
        stack1 == SubSeq(t.stack, 1, Len(t.stack) - 1)
    IN
    IF jump_args_count = 0 THEN
        LET b1 == IF Len(depths) > 0
                  THEN ins(t.builder, MkInst("br_table", val, NoEbb, <<>>,
                                             direct_table(cs, depths), <<>>))
                  ELSE t.builder
            ebb == br_destination(FrameAt(cs, default))
        IN  [t EXCEPT !.builder = ins(b1, MkInst("jump", NoValue, ebb, <<>>, <<>>, <<>>)),
                      !.stack = stack1,
                      !.state.br_table_reachable_ebbs =
                          @ \cup direct_reachable_ebbs(cs, depths),
                      !.state.real_unreachable_stack_depth = 1 + min_depth]
    ELSE
        IF Len(stack1) < jump_args_count THEN Panic(t) ELSE
        LET cut_index == Len(stack1) - jump_args_count
            parts     == split_off(stack1, cut_index)
            jump_args == parts[2]
            base == Len(t.builder.ebbs)
            b1 == create_ebbs(t.builder, Cardinality(first_at(depths)))
            b2 == IF Len(depths) > 0
                  THEN ins(b1, MkInst("br_table", val, NoEbb, <<>>,
                                      split_table(depths, base), <<>>))
                  ELSE b1
            default_ebb == br_destination(FrameAt(cs, default))
            b3 == ins(b2, MkInst("jump", NoValue, default_ebb, jump_args, <<>>, <<>>))
        IN  [t EXCEPT !.builder = fill_dest_ebbs(b3, cs, depths, base, jump_args, order),
                      !.stack = parts[1] \o jump_args,
                      !.state.br_table_reachable_ebbs =
                          @ \cup split_reachable_ebbs(depths, base),
                      !.state.real_unreachable_stack_depth = 1 + min_depth]

\* A return after which the translator stays in reachable state.
Op_Return_staying_reachable(t, sig) ==
    IF Len(t.stack) < Len(sig.return_types) THEN Panic(t) ELSE
    LET return_count == Len(sig.return_types)
        parts        == split_off(t.stack, Len(t.stack) - return_count)
    IN  [t EXCEPT !.builder = ins(@, MkInst("return", NoValue, NoEbb, parts[2], <<>>, <<>>)),
                  !.stack = parts[1],
                  !.state.last_inst_return = TRUE]

\* A return that does not record that the last instruction is a return.
Op_Return_unrecorded(t, sig) ==
    LET return_count == Len(sig.return_types)
        parts        == split_off(t.stack, Len(t.stack) - return_count)
    IN  [t EXCEPT !.builder = ins(@, MkInst("return", NoValue, NoEbb, parts[2], <<>>, <<>>)),
                  !.stack = parts[1],
                  !.state.real_unreachable_stack_depth = 1]

Op_Return(t, sig) ==
    IF Len(t.stack) < Len(sig.return_types) THEN Panic(t) ELSE
    LET return_count == Len(sig.return_types)
        cut_index    == Len(t.stack) - return_count
        parts        == split_off(t.stack, cut_index)
    IN  [t EXCEPT !.builder = ins(@, MkInst("return", NoValue, NoEbb, parts[2], <<>>, <<>>)),
                  !.stack = parts[1],
                  !.state.last_inst_return = TRUE,
                  !.state.real_unreachable_stack_depth = 1]

\* ------------------------------------------------------------------ operators
\* An operator as the parser delivers it.  ty is the block signature of a
\* block, loop or if; relative_depth the label of br and br_if; depths and
\* default the table of a br_table.  order, which is no part of the
\* operator, is the order in which the HashMap dest_ebbs is iterated when
\* the br_table is translated.
MkOp(name, ty, relative_depth, depths, default, order) ==
    [name |-> name, ty |-> ty, relative_depth |-> relative_depth,
     depths |-> depths, default |-> default, order |-> order, index |-> 0]

SimpleOp(name) == MkOp(name, "EmptyBlock", 0, <<>>, 0, <<>>)

\* call and call_indirect: index is the function index, the signature index.
IndexOp(name, index) == [SimpleOp(name) EXCEPT !.index = index]

\* A load: index is the offset of its memory immediate.
LoadOp(name, offset) == [SimpleOp(name) EXCEPT !.index = offset]

NoOp == SimpleOp("none")

translate_operator(op, t0, sig) ==
    LET t == [t0 EXCEPT !.state.last_inst_return = FALSE] IN
    CASE op.name = "Const"       -> Op_Const(t)
      [] op.name = "Drop"        -> Op_Drop(t)
      [] op.name = "Unreachable" -> Op_Unreachable(t)
      [] op.name = "Block"       -> Op_Block(t, op.ty)
      [] op.name = "Loop"        -> Op_Loop(t, op.ty)
      [] op.name = "If"          -> Op_If(t, op.ty)
      [] op.name = "Else"        -> Op_Else(t)
      [] op.name = "End"         -> Op_End(t)
      [] op.name = "Br"          -> Op_Br(t, op.relative_depth)
      [] op.name = "BrIf"        -> Op_BrIf(t, op.relative_depth)
      [] op.name = "BrTable"     -> Op_BrTable(t, op.depths, op.default, op.order)
      [] op.name = "Return"      -> Op_Return(t, sig)
      [] op.name = "Call"        -> Op_Call(t, op.index)
      [] op.name = "CallIndirect" -> Op_CallIndirect(t, op.index)
      [] op.name \in ConstNames -> Op_ConstOf(t, op.name)
      [] op.name = "Select"      -> Op_Select(t)
      [] op.name \in LoadNames  -> Op_Load(t, op.name, op.index)
      [] op.name \in CountNames -> Op_Count(t, op.name)
      [] op.name \in IntCompareNames   -> Op_Compare(t, "icmp", int_cc(op.name))
      [] op.name \in FloatCompareNames -> Op_Compare(t, "fcmp", float_cc(op.name))
      [] op.name \in EqzNames          -> Op_Eqz(t)
      [] op.name = "GetLocal"    -> Op_GetLocal(t, op.index)
      [] op.name = "SetLocal"    -> Op_SetLocal(t, op.index)
      [] op.name = "TeeLocal"    -> Op_TeeLocal(t, op.index)
      [] op.name \in StoreNames -> Op_Store(t, op.name, op.index)
      [] op.name = "Nop"         -> t

\* An opener in unreachable code that is not counted.
Unreachable_Open_uncounted(t) == t

Unreachable_Open(t) ==
    [t EXCEPT !.state.phantom_unreachable_stack_depth = @ + 1]

\* An unreachable `end` that seals the block after the frame and leaves the
\* header of a Loop frame as it is.
Unreachable_End_header_unsealed(t) ==
    IF t.state.phantom_unreachable_stack_depth > 0
    THEN [t EXCEPT !.state.phantom_unreachable_stack_depth = @ - 1]
    ELSE
    IF Len(t.control_stack) = 0 THEN Panic(t) ELSE
    LET frame == FrameAt(t.control_stack, 0)
        b2 == seal_block(switch_to_block(t.builder, following_code(frame), <<>>),
                         following_code(frame))
        depth1 == IF frame.kind = "If" THEN 1
                  ELSE t.state.real_unreachable_stack_depth
        depth2 == IF following_code(frame) \in t.state.br_table_reachable_ebbs
                  THEN 1 ELSE depth1
        stack1 == truncate(t.stack, original_stack_size(frame))
    IN
    IF depth2 = 0 THEN Panic(t) ELSE
        [t EXCEPT !.builder = b2,
                  !.control_stack = SubSeq(@, 1, Len(@) - 1),
                  !.stack = IF depth2 = 1
                            THEN stack1 \o ebb_args(b2, following_code(frame))
                            ELSE stack1,
                  !.state.real_unreachable_stack_depth = depth2 - 1,
                  !.state.last_inst_return = FALSE]

\* An unreachable `end` that treats an If frame as it treats a Block frame:
\* the real depth is not set to 1 before it is decremented.
Unreachable_End_if_as_block(t) ==
    IF t.state.phantom_unreachable_stack_depth > 0
    THEN [t EXCEPT !.state.phantom_unreachable_stack_depth = @ - 1]
    ELSE
    IF Len(t.control_stack) = 0 THEN Panic(t) ELSE
    LET frame == FrameAt(t.control_stack, 0)
        b1 == seal_block(switch_to_block(t.builder, following_code(frame), <<>>),
                         following_code(frame))
        b2 == IF frame.kind = "Loop" THEN seal_block(b1, frame.header) ELSE b1
        depth2 == IF following_code(frame) \in t.state.br_table_reachable_ebbs
                  THEN 1 ELSE t.state.real_unreachable_stack_depth
        stack1 == truncate(t.stack, original_stack_size(frame))
    IN
    IF depth2 = 0 THEN Panic(t) ELSE
        [t EXCEPT !.builder = b2,
                  !.control_stack = SubSeq(@, 1, Len(@) - 1),
                  !.stack = IF depth2 = 1
                            THEN stack1 \o ebb_args(b2, following_code(frame))
                            ELSE stack1,
                  !.state.real_unreachable_stack_depth = depth2 - 1,
                  !.state.last_inst_return = FALSE]

\* An unreachable `end` that leaves last_inst_return as it is.
Unreachable_End_keeping_flag(t) ==
    IF t.state.phantom_unreachable_stack_depth > 0
    THEN [t EXCEPT !.state.phantom_unreachable_stack_depth = @ - 1]
    ELSE
    IF Len(t.control_stack) = 0 THEN Panic(t) ELSE
    LET frame == FrameAt(t.control_stack, 0)
        b1 == seal_block(switch_to_block(t.builder, following_code(frame), <<>>),
                         following_code(frame))
        b2 == IF frame.kind = "Loop" THEN seal_block(b1, frame.header) ELSE b1
        depth1 == IF frame.kind = "If" THEN 1
                  ELSE t.state.real_unreachable_stack_depth
        depth2 == IF following_code(frame) \in t.state.br_table_reachable_ebbs
                  THEN 1 ELSE depth1
        stack1 == truncate(t.stack, original_stack_size(frame))
    IN
    IF depth2 = 0 THEN Panic(t) ELSE
        [t EXCEPT !.builder = b2,
                  !.control_stack = SubSeq(@, 1, Len(@) - 1),
                  !.stack = IF depth2 = 1
                            THEN stack1 \o ebb_args(b2, following_code(frame))
                            ELSE stack1,
                  !.state.real_unreachable_stack_depth = depth2 - 1]

Unreachable_End(t) ==
    IF t.state.phantom_unreachable_stack_depth > 0
    THEN [t EXCEPT !.state.phantom_unreachable_stack_depth = @ - 1]
    ELSE
    IF Len(t.control_stack) = 0 THEN Panic(t) ELSE
    LET frame == FrameAt(t.control_stack, 0)
        b1 == seal_block(switch_to_block(t.builder, following_code(frame), <<>>),
                         following_code(frame))
        b2 == IF frame.kind = "Loop" THEN seal_block(b1, frame.header) ELSE b1
        depth1 == IF frame.kind = "If" THEN 1
                  ELSE t.state.real_unreachable_stack_depth
        depth2 == IF following_code(frame) \in t.state.br_table_reachable_ebbs
                  THEN 1 ELSE depth1
        stack1 == truncate(t.stack, original_stack_size(frame))
    IN
    IF depth2 = 0 THEN Panic(t) ELSE
        [t EXCEPT !.builder = b2,
                  !.control_stack = SubSeq(@, 1, Len(@) - 1),
                  !.stack = IF depth2 = 1
                            THEN stack1 \o ebb_args(b2, following_code(frame))
                            ELSE stack1,
                  !.state.real_unreachable_stack_depth = depth2 - 1,
                  !.state.last_inst_return = FALSE]

\* An unreachable `else` that takes one level off the real depth, as the
\* unreachable `end` does.
Unreachable_Else_decrementing(t) ==
    IF t.state.phantom_unreachable_stack_depth > 0 THEN t ELSE
    LET frame == FrameAt(t.control_stack, 0) IN
    IF frame.kind # "If" THEN Panic(t) ELSE
    LET else_ebb == next_ebb(t.builder)
        b1 == change_jump_destination(create_ebb(t.builder), frame.branch_inst, else_ebb)
    IN  [t EXCEPT !.builder = switch_to_block(seal_block(b1, else_ebb), else_ebb, <<>>),
                  !.stack = truncate(@, frame.original_stack_size),
                  !.state.real_unreachable_stack_depth = @ - 1,
                  !.state.last_inst_return = FALSE]

\* An unreachable `else` that does not look at the phantom depth.
Unreachable_Else_of_any_if(t) ==
    LET frame == FrameAt(t.control_stack, 0) IN
    IF frame.kind # "If" THEN Panic(t) ELSE
    LET else_ebb == next_ebb(t.builder)
        b1 == change_jump_destination(create_ebb(t.builder), frame.branch_inst, else_ebb)
    IN  [t EXCEPT !.builder = switch_to_block(seal_block(b1, else_ebb), else_ebb, <<>>),
                  !.stack = truncate(@, frame.original_stack_size),
                  !.state.real_unreachable_stack_depth = 0,
                  !.state.last_inst_return = FALSE]

Unreachable_Else(t) ==
    IF t.state.phantom_unreachable_stack_depth > 0 THEN t ELSE
    LET frame == FrameAt(t.control_stack, 0) IN
    IF frame.kind # "If" THEN Panic(t) ELSE
    LET else_ebb == next_ebb(t.builder)
        b1 == change_jump_destination(create_ebb(t.builder), frame.branch_inst, else_ebb)
    IN  [t EXCEPT !.builder = switch_to_block(seal_block(b1, else_ebb), else_ebb, <<>>),
                  !.stack = truncate(@, frame.original_stack_size),
                  !.state.real_unreachable_stack_depth = 0,
                  !.state.last_inst_return = FALSE]

\* An unreachable translator whose last arm clears last_inst_return, as the
\* arms of `end` and `else` do.
translate_unreachable_operator_clearing(op, t) ==
    CASE op.name \in {"If", "Loop", "Block"} -> Unreachable_Open(t)
      [] op.name = "End"                     -> Unreachable_End(t)
      [] op.name = "Else"                    -> Unreachable_Else(t)
      [] OTHER -> [t EXCEPT !.state.last_inst_return = FALSE]

translate_unreachable_operator(op, t) ==
    CASE op.name \in {"If", "Loop", "Block"} -> Unreachable_Open(t)
      [] op.name = "End"                     -> Unreachable_End(t)
      [] op.name = "Else"                    -> Unreachable_Else(t)
      [] OTHER                               -> t

\* The test of the driver loop: which of the two translators gets the
\* operator.
in_unreachable_code(state) ==
    state.phantom_unreachable_stack_depth + state.real_unreachable_stack_depth > 0

\* A driver loop that looks at the phantom depth alone.
translate_code_operator_phantom_only(op, t, sig) ==
    IF t.state.phantom_unreachable_stack_depth > 0
    THEN translate_unreachable_operator(op, t)
    ELSE translate_operator(op, t, sig)

\* One turn of the driver loop on a CodeOperator.
translate_code_operator(op, t, sig) ==
    IF in_unreachable_code(t.state)
    THEN translate_unreachable_operator(op, t)
    ELSE translate_operator(op, t, sig)

\* The prologue of translate_function_body, for a function without
\* arguments and without declared locals: the entry EBB, the
\* TranslationState and the implicit function block.
InitialTranslation(sig) ==
    LET first_ebb == next_ebb(NewBuilder)
        b1 == seal_block(switch_to_block(create_ebb(NewBuilder), first_ebb, <<>>),
                         first_ebb)
        end_ebb == next_ebb(b1)
    IN  [stack |-> <<>>,
         control_stack |-> <<BlockFrame(end_ebb, sig.return_types, 0)>>,
         state |-> [last_inst_return |-> FALSE,
                    phantom_unreachable_stack_depth |-> 0,
                    real_unreachable_stack_depth |-> 0,
                    br_table_reachable_ebbs |-> {}],
         builder |-> create_ebb(b1),
         func_imports |-> NewFunctionImports,
         imported |-> [functions |-> <<>>, signatures |-> <<>>],
         panicked |-> FALSE]

\* The types of the arguments and of the declared locals of a function.
LocalTypes == {"I32", "I64", "F32", "F64"}

\* The constant that initialises the locals of a group of type ty.
zero_constant(ty) ==
    CASE ty \in {"I32", "I64"} -> "iconst"
      [] ty = "F32"            -> "f32const"
      [] ty = "F64"            -> "f64const"

\* The prologue while it runs: the builder, local_index, and the calls it
\* has made to declare_var, def_var and to the instruction builder, in the
\* order of the calls.
PrologueCall(call, var, ty, val) ==
    [call |-> call, var |-> var, ty |-> ty, val |-> val]

\* declare_var and def_var of one Local.
declare_local(p, ty, val) ==
    [p EXCEPT !.builder = def_var(declare_var(@, p.local_index, ty), p.local_index, val),
              !.calls = @ \o <<PrologueCall("declare_var", p.local_index, ty, NoValue),
                               PrologueCall("def_var", p.local_index, ty, val)>>,
              !.local_index = @ + 1]

\* The loop over the arguments of the signature: argument i is Local(i),
\* defined as the i-th argument of the function.  The loop does not use
\* local_index, which is set to args_num after it.
RECURSIVE declare_args(_, _, _)
declare_args(p, args_types, i) ==
    IF i > Len(args_types) THEN p ELSE
    LET arg_value == ebb_args(p.builder, 1)[i]
    IN  declare_args(declare_local(p, args_types[i], arg_value), args_types, i + 1)

\* A zero that is an iconst, whatever the type of the group is.
local_zero_integer(p, ty) ==
    LET val == ins_value(p.builder, "iconst", ty, <<>>)
    IN  [p EXCEPT !.builder = val.builder,
                  !.calls = Append(@, PrologueCall("iconst", NoValue, ty, val.val)),
                  !.val = val.val]

\* The constant zero of a group of locals.
local_zero(p, ty) ==
    LET val == ins_value(p.builder, zero_constant(ty), ty, <<>>)
    IN  [p EXCEPT !.builder = val.builder,
                  !.calls = Append(@, PrologueCall(zero_constant(ty), NoValue, ty, val.val)),
                  !.val = val.val]

\* The inner loop: loc_count locals of type ty, all defined as val.
RECURSIVE declare_group(_, _, _)
declare_group(p, loc_count, ty) ==
    IF loc_count = 0 THEN p
    ELSE declare_group(declare_local(p, ty, p.val), loc_count - 1, ty)

\* The loop over the groups (loc_count, ty) of declared locals.
RECURSIVE declare_locals(_, _)
declare_locals(p, locals) ==
    IF locals = <<>> THEN p ELSE
    LET group == Head(locals)
    IN  declare_locals(declare_group(local_zero(p, group.ty), group.count, group.ty),
                       Tail(locals))

\* The prologue of translate_function_body for a signature with arguments
\* and a list of declared locals.  switch_to_block on the first EBB of a
\* function gives it one formal parameter for each argument of the
\* signature: these are the values arg_value returns.
FunctionPrologue(signature, locals) ==
    LET first_ebb == next_ebb(NewBuilder)
        args_num  == Len(signature.argument_types)
        b0 == append_ebb_args(create_ebb(NewBuilder), first_ebb, args_num)
        b1 == seal_block(switch_to_block(b0, first_ebb, <<>>), first_ebb)
        p0 == [builder |-> b1, calls |-> <<>>, local_index |-> 0, val |-> NoValue]
        p1 == declare_locals(declare_args(p0, signature.argument_types, 1), locals)
        end_ebb == next_ebb(p1.builder)
    IN  [translation |->
            [InitialTranslation(signature) EXCEPT
                !.control_stack = <<BlockFrame(end_ebb, signature.return_types, 0)>>,
                !.builder = create_ebb(p1.builder)],
         calls |-> p1.calls]

\* The prologue for a function without arguments that declares one local of
\* type I32: the local is Local(0), initialised with an iconst in the entry
\* EBB.
InitialTranslationWithLocal(sig) ==
    LET first_ebb == next_ebb(NewBuilder)
        b1 == seal_block(switch_to_block(create_ebb(NewBuilder), first_ebb, <<>>),
                         first_ebb)
        val == ins_value(b1, "iconst", "I32", <<>>)
        b2 == def_var(declare_var(val.builder, 0, "I32"), 0, val.val)
        end_ebb == next_ebb(b2)
    IN  [InitialTranslation(sig) EXCEPT
            !.control_stack = <<BlockFrame(end_ebb, sig.return_types, 0)>>,
            !.builder = create_ebb(b2)]

\* The epilogue of translate_function_body after EndFunctionBody: the
\* implicit return, then the function block is closed.
FunctionEpilogue(t, sig) ==
    LET implicit == /\ ~t.state.last_inst_return
                    /\ ~is_filled(t.builder)
                    /\ (~is_unreachable(t.builder) \/ ~is_pristine(t.builder))
    IN
    IF implicit /\ Len(t.stack) < Len(sig.return_types) THEN Panic(t) ELSE
    LET parts  == split_off(t.stack, Len(t.stack) - Len(sig.return_types))
        stack1 == IF implicit THEN parts[1] ELSE t.stack
        b1 == IF implicit
              THEN ins(t.builder, MkInst("return", NoValue, NoEbb, parts[2], <<>>, <<>>))
              ELSE t.builder
    IN
    IF Len(t.control_stack) = 0 THEN Panic(t) ELSE
    LET frame == FrameAt(t.control_stack, 0)
        cs1 == SubSeq(t.control_stack, 1, Len(t.control_stack) - 1)
        b2 == seal_block(switch_to_block(b1, following_code(frame), return_values(frame)),
                         following_code(frame))
    IN
    IF is_unreachable(b2)
    THEN [t EXCEPT !.builder = b2, !.control_stack = cs1, !.stack = stack1]
    ELSE
    LET stack2 == truncate(stack1, original_stack_size(frame))
                     \o ebb_args(b2, following_code(frame))
    IN
    IF Len(stack2) < Len(sig.return_types) THEN Panic(t) ELSE
    LET parts2 == split_off(stack2, Len(stack2) - Len(sig.return_types))
    IN  [t EXCEPT !.builder = ins(b2, MkInst("return", NoValue, NoEbb, parts2[2],
                                             <<>>, <<>>)),
                  !.control_stack = cs1,
                  !.stack = parts2[1]]

\* ------------------------------------------------------------------ state
VARIABLES
    sig,            \* the Signature given to translate_function_body
    stack,          \* the value stack
    control_stack,  \* the control stack
    state,          \* the TranslationState
    builder,        \* the FunctionBuilder and the Function it builds
    func_imports,   \* the FunctionImports
    imported,       \* the indices import_function and import_signature
                    \* were called for, in the order of the calls
    pc,             \* "run": in the driver loop; "done": Ok returned;
                    \* "panic": the translation was aborted by a panic
    nops,           \* operators read so far
    op,             \* the operator read last
    unreachable_op, \* whether translate_unreachable_operator handled it
    table_targets,  \* the branch destinations that the table entries of the
                    \* br_tables translated so far stand for
    result,         \* what translate_function_body returned, once it has
    opened,         \* for each construct that is open, the innermost last:
                    \* whether its opener was read in unreachable state
    prologue,       \* the declared locals given to translate_function_body
                    \* and the calls its prologue made to the builder
    section,        \* parse_data_section: the events the parser has still to
                    \* deliver, the place in the loop, the locals of the loop,
                    \* the calls to the runtime and what was returned
    vctrl,          \* validation: the control frames of the body read so far
    vheight         \* validation: the height of the operand stack

vars == <<sig, stack, control_stack, state, builder, func_imports, imported,
          pc, nops, op, unreachable_op, table_targets, result, opened,
          prologue, section, vctrl, vheight>>

\* ------------------------------------------------------------------ validation
\* The validation algorithm of the WebAssembly specification, with one
\* value type: the operand stack is its height, a control frame its kind,
\* the number of its results, the height of the stack when it was entered and
\* whether the rest of the frame is unreachable (stack-polymorphic).
VFrame(kind, arity, height) ==
    [kind |-> kind, arity |-> arity, height |-> height, unreachable |-> FALSE]

VTop == vctrl[Len(vctrl)]

VFrameAt(relative_depth) == vctrl[Len(vctrl) - relative_depth]

\* The values a branch to the frame carries: none for a loop.
label_arity(frame) == IF frame.kind = "loop" THEN 0 ELSE frame.arity

VAvail == vheight - VTop.height

\* n operands can be popped: they are there, or the frame is unreachable.
CanPop(n) == VTop.unreachable \/ VAvail >= n

AfterPop(n) == Max(vheight - n, VTop.height)

\* The frame can be closed: its results, and nothing else, are on the stack.
CanClose ==
    IF VTop.unreachable THEN VAvail <= VTop.arity ELSE VAvail = VTop.arity

\* The operand types of a value operator, the top of the stack last.
operand_types(name) ==
    CASE name \in ConstNames -> <<>>
      [] name \in LoadNames  -> <<"I32">>
      [] name \in {"I32Clz", "I32Ctz", "I32Popcnt", "I32Eqz"} -> <<"I32">>
      [] name \in {"I64Clz", "I64Ctz", "I64Popcnt", "I64Eqz"} -> <<"I64">>
      [] name \in I32CompareNames -> <<"I32", "I32">>
      [] name \in I64CompareNames -> <<"I64", "I64">>
      [] name \in F32CompareNames -> <<"F32", "F32">>
      [] name \in F64CompareNames -> <<"F64", "F64">>

ValueOperatorNames ==
    ConstNames \cup LoadNames \cup CountNames \cup EqzNames
        \cup IntCompareNames \cup FloatCompareNames

\* The values on top of the stack have the types tys.
TopTypes(tys) ==
    /\ Len(stack) >= Len(tys)
    /\ \A i \in 1..Len(tys) :
          value_type(builder, stack[Len(stack) - Len(tys) + i]) = tys[i]

\* select: an i32 on two operands of one type.
SelectTyped ==
    /\ Len(stack) >= 3
    /\ TopTypes(<<"I32">>)
    /\ value_type(builder, stack[Len(stack) - 1])
          = value_type(builder, stack[Len(stack) - 2])

ValidOp(o) ==
    CASE o.name = "Const"       -> TRUE
      [] o.name \in ValueOperatorNames -> TopTypes(operand_types(o.name))
      [] o.name = "Select"      -> SelectTyped /\ CanPop(3)
      [] o.name = "Nop"         -> TRUE
      [] o.name = "GetLocal"    -> map_has(builder.vars, o.index)
      [] o.name \in {"SetLocal", "TeeLocal"} ->
            /\ map_has(builder.vars, o.index)
            /\ TopTypes(<<map_get(builder.types, o.index)>>)
            /\ CanPop(1)
      [] o.name \in StoreNames -> TopTypes(<<"I32", "I32">>) /\ CanPop(2)
      [] o.name = "Drop"        -> CanPop(1)
      [] o.name = "Unreachable" -> TRUE
      [] o.name \in {"Block", "Loop"} -> Len(vctrl) <= MaxDepth
      [] o.name = "If"          -> CanPop(1) /\ Len(vctrl) <= MaxDepth
      [] o.name = "Else"        -> VTop.kind = "if" /\ CanClose
      [] o.name = "End"         ->
            /\ Len(vctrl) > 1
            /\ CanClose
            /\ VTop.kind = "if" => VTop.arity = 0
      [] o.name = "Br"          ->
            /\ o.relative_depth < Len(vctrl)
            /\ CanPop(label_arity(VFrameAt(o.relative_depth)))
      [] o.name = "BrIf"        ->
            /\ o.relative_depth < Len(vctrl)
            /\ CanPop(1 + label_arity(VFrameAt(o.relative_depth)))
      [] o.name = "BrTable"     ->
            /\ \A d \in Range(o.depths) \cup {o.default} : d < Len(vctrl)
            /\ \A d \in Range(o.depths) :
                  label_arity(VFrameAt(d)) = label_arity(VFrameAt(o.default))
            /\ CanPop(1 + label_arity(VFrameAt(o.default)))
      [] o.name = "Return"      -> CanPop(vctrl[1].arity)
      [] o.name = "Call"        -> CanPop(args_count(o.index))
      [] o.name = "CallIndirect" ->
            CanPop(1 + Len(ModuleSignatures[o.index].argument_types))

VMarkUnreachable ==
    /\ vctrl' = [vctrl EXCEPT ![Len(vctrl)].unreachable = TRUE]
    /\ vheight' = VTop.height

ValidateOp(o) ==
    CASE o.name = "Const" -> vheight' = vheight + 1 /\ UNCHANGED vctrl
      [] o.name \in ValueOperatorNames ->
            /\ vheight' = AfterPop(Len(operand_types(o.name))) + 1
            /\ UNCHANGED vctrl
      [] o.name = "Select" -> vheight' = AfterPop(3) + 1 /\ UNCHANGED vctrl
      [] o.name \in {"Nop", "TeeLocal"} -> UNCHANGED <<vheight, vctrl>>
      [] o.name = "GetLocal" -> vheight' = vheight + 1 /\ UNCHANGED vctrl
      [] o.name = "SetLocal" -> vheight' = AfterPop(1) /\ UNCHANGED vctrl
      [] o.name \in StoreNames -> vheight' = AfterPop(2) /\ UNCHANGED vctrl
      [] o.name = "Drop"  -> vheight' = AfterPop(1) /\ UNCHANGED vctrl
      [] o.name \in {"Unreachable", "Br", "BrTable", "Return"} -> VMarkUnreachable
      [] o.name = "Block" ->
            /\ vctrl' = Append(vctrl, VFrame("block", Len(translate_type(o.ty)), vheight))
            /\ UNCHANGED vheight
      [] o.name = "Loop"  ->
            /\ vctrl' = Append(vctrl, VFrame("loop", Len(translate_type(o.ty)), vheight))
            /\ UNCHANGED vheight
      [] o.name = "If"    ->
            /\ vctrl' = Append(vctrl, VFrame("if", Len(translate_type(o.ty)), AfterPop(1)))
            /\ vheight' = AfterPop(1)
      [] o.name = "Else"  ->
            /\ vctrl' = [vctrl EXCEPT ![Len(vctrl)] = VFrame("else", VTop.arity, VTop.height)]
            /\ vheight' = VTop.height
      [] o.name = "End"   ->
            /\ vctrl' = SubSeq(vctrl, 1, Len(vctrl) - 1)
            /\ vheight' = VTop.height + VTop.arity
      [] o.name = "BrIf"  ->
            /\ vheight' = LET la == label_arity(VFrameAt(o.relative_depth))
                          IN  AfterPop(1 + la) + la
            /\ UNCHANGED vctrl
      [] o.name = "Call"  ->
            /\ vheight' = LET callee == ModuleSignatures[ModuleFunctions[o.index]]
                          IN  AfterPop(Len(callee.argument_types))
                                  + Len(callee.return_types)
            /\ UNCHANGED vctrl
      [] o.name = "CallIndirect" ->
            /\ vheight' = LET callee == ModuleSignatures[o.index]
                          IN  AfterPop(1 + Len(callee.argument_types))
                                  + Len(callee.return_types)
            /\ UNCHANGED vctrl

\* ------------------------------------------------------------------ driver
Translation ==
    [stack |-> stack, control_stack |-> control_stack, state |-> state,
     builder |-> builder, func_imports |-> func_imports, imported |-> imported,
     panicked |-> FALSE]

\* The translation goes on from t, or has panicked.
Becomes(t, then) ==
    /\ stack' = t.stack
    /\ control_stack' = t.control_stack
    /\ state' = t.state
    /\ builder' = t.builder
    /\ func_imports' = t.func_imports
    /\ imported' = t.imported
    /\ pc' = IF t.panicked THEN "panic" ELSE then

Signatures == {[return_types |-> r] : r \in {<<>>, <<"I32">>}}

\* Result<(Function, FunctionImports), String>, and the value of `result`
\* while translate_function_body has not returned.
NotReturned == [kind |-> "none"]

Ok(func, imports) == [kind |-> "Ok", func |-> func, func_imports |-> imports]

Err(message) == [kind |-> "Err", message |-> message]

\* No section is being parsed.
NoSection ==
    [segments |-> <<>>, events |-> <<>>, at |-> "none", memory_index |-> 0,
     offset |-> 0, declared |-> <<>>, result |-> NotReturned]

Init ==
    /\ sig \in Signatures
    /\ LET t == InitialTranslation(sig)
       IN  /\ stack = t.stack
           /\ control_stack = t.control_stack
           /\ state = t.state
           /\ builder = t.builder
           /\ func_imports = t.func_imports
           /\ imported = t.imported
    /\ pc = "run"
    /\ nops = 0
    /\ op = NoOp
    /\ unreachable_op = FALSE
    /\ table_targets = {}
    /\ result = NotReturned
    /\ opened = <<>>
    /\ prologue = [locals |-> <<>>, calls |-> <<>>]
    /\ section = NoSection
    /\ vctrl = <<VFrame("func", Len(sig.return_types), 0)>>
    /\ vheight = 0

\* parser.read() returns CodeOperator(o): one turn of the driver loop, in a
\* body of at most max operators beside its `end`s.
CodeOperatorBounded(o, max, max_stack) ==
    /\ pc = "run"
    /\ o.name = "End" \/ nops < max
    /\ ValidOp(o)
    /\ ValidateOp(o)
    /\ vheight' <= max_stack
    /\ \E t \in {translate_code_operator(o, Translation, sig)} : Becomes(t, "run")
    /\ nops' = IF o.name = "End" THEN nops ELSE nops + 1
    /\ op' = o
    /\ unreachable_op' = in_unreachable_code(state)
    /\ table_targets' =
          IF o.name = "BrTable" /\ ~in_unreachable_code(state) /\ pc' = "run"
          THEN table_targets \cup direct_reachable_ebbs(control_stack, o.depths)
          ELSE table_targets
    /\ opened' = CASE o.name \in {"Block", "Loop", "If"} ->
                          Append(opened, in_unreachable_code(state))
                    [] o.name = "End" -> SubSeq(opened, 1, Len(opened) - 1)
                    [] OTHER -> opened
    /\ UNCHANGED <<sig, result, prologue, section>>

CodeOperatorWithin(o, max) == CodeOperatorBounded(o, max, MaxStack)

CodeOperator(o) == CodeOperatorWithin(o, MaxOps)

\* Code that validation types as unreachable does not go on with plain
\* operators: the translator skips them there, and they type-check whatever
\* the stack holds.
Live == ~VTop.unreachable

\* Code that the translator skips holds no branch: the `_` arm of
\* translate_unreachable_operator reads nothing of an operator, and to
\* validation a skipped br, br_table or return is what `unreachable` is.
Translated == ~in_unreachable_code(state)

ReadConst == Live /\ CodeOperator(SimpleOp("Const"))

ReadUnreachable == Live /\ CodeOperator(SimpleOp("Unreachable"))

ReadBlock ==
    \E ty \in BlockTypes : pc = "run" /\ CodeOperator(MkOp("Block", ty, 0, <<>>, 0, <<>>))

ReadLoop ==
    \E ty \in BlockTypes : pc = "run" /\ CodeOperator(MkOp("Loop", ty, 0, <<>>, 0, <<>>))

ReadIf ==
    \E ty \in BlockTypes : pc = "run" /\ CodeOperator(MkOp("If", ty, 0, <<>>, 0, <<>>))

ReadElse == pc = "run" /\ CodeOperator(SimpleOp("Else"))

ReadEnd == pc = "run" /\ CodeOperator(SimpleOp("End"))

ReadBr ==
    \E d \in 0..MaxDepth :
        Translated /\ CodeOperator(MkOp("Br", "EmptyBlock", d, <<>>, 0, <<>>))

ReadBrIf ==
    \E d \in 0..MaxDepth :
        Translated /\ CodeOperator(MkOp("BrIf", "EmptyBlock", d, <<>>, 0, <<>>))

ReadBrTable ==
    \E depths \in SeqUpTo(0..MaxDepth, MaxTable), default \in 0..MaxDepth :
        \E order \in Orders(Range(depths)) :
            /\ Translated
            /\ CodeOperator(MkOp("BrTable", "EmptyBlock", 0, depths, default, order))

ReadReturn == Translated /\ CodeOperator(SimpleOp("Return"))

\* parser.read() returns EndFunctionBody: the loop ends, the epilogue runs
\* and translate_function_body returns Ok.
EndFunctionBody ==
    /\ pc = "run"
    /\ Len(vctrl) = 1
    /\ CanClose
    /\ \E t \in {FunctionEpilogue(Translation, sig)} :
          /\ Becomes(t, "done")
          /\ result' = IF t.panicked THEN NotReturned
                                     ELSE Ok(t.builder, t.func_imports)
    /\ op' = SimpleOp("EndFunctionBody")
    /\ unreachable_op' = FALSE
    /\ UNCHANGED <<sig, nops, table_targets, opened, prologue, section, vctrl,
                   vheight>>

Next ==
    \/ ReadConst
    \/ ReadUnreachable
    \/ ReadBlock
    \/ ReadLoop
    \/ ReadIf
    \/ ReadElse
    \/ ReadEnd
    \/ ReadBr
    \/ ReadBrIf
    \/ ReadBrTable
    \/ ReadReturn
    \/ EndFunctionBody

\* The translation of the bodies with control flow.
Spec == Init /\ [][Next]_vars

\* Bodies without control flow: constants, drops and calls.
CallsConst == pc = "run" /\ CodeOperatorWithin(SimpleOp("Const"), MaxCallOps)

CallsDrop == pc = "run" /\ CodeOperatorWithin(SimpleOp("Drop"), MaxCallOps)

CallsCall ==
    \E function_index \in 1..Len(ModuleFunctions) :
        pc = "run" /\ CodeOperatorWithin(IndexOp("Call", function_index), MaxCallOps)

CallsCallIndirect ==
    \E index \in 1..Len(ModuleSignatures) :
        pc = "run" /\ CodeOperatorWithin(IndexOp("CallIndirect", index), MaxCallOps)

NextCalls ==
    \/ CallsConst
    \/ CallsDrop
    \/ CallsCall
    \/ CallsCallIndirect
    \/ EndFunctionBody

SpecCalls == Init /\ [][NextCalls]_vars

\* The event is taken for the end of the body: the loop is left by `break`
\* and the function built so far is returned.
ParserOther_break ==
    /\ pc = "run"
    /\ \E t \in {FunctionEpilogue(Translation, sig)} :
          /\ Becomes(t, "done")
          /\ result' = IF t.panicked THEN NotReturned
                                     ELSE Ok(t.builder, t.func_imports)
    /\ op' = SimpleOp("Other")
    /\ unreachable_op' = FALSE
    /\ UNCHANGED <<sig, nops, table_targets, opened, prologue, section, vctrl,
                   vheight>>

\* parser.read() returns an event that is neither CodeOperator nor
\* EndFunctionBody: translate_function_body returns the Err.
ParserOther ==
    /\ pc = "run"
    /\ pc' = "err"
    /\ result' = Err("wrong content in function body")
    /\ op' = SimpleOp("Other")
    /\ unreachable_op' = FALSE
    /\ UNCHANGED <<sig, stack, control_stack, state, builder, func_imports,
                   imported, nops, table_targets, opened, prologue, section,
                   vctrl, vheight>>

NextDesync ==
    \/ CallsConst
    \/ CallsDrop
    \/ CallsCall
    \/ CallsCallIndirect
    \/ EndFunctionBody
    \/ ParserOther

\* Bodies of constants, drops and calls in which the parser may lose its
\* place.
SpecDesync == Init /\ [][NextDesync]_vars

\* Bodies of value operators: constants, select, 16-bit loads, bit counts
\* and comparisons.
ValueOperator(o) == CodeOperatorBounded(o, MaxValueOps, MaxValueStack)

ValuesConst ==
    \E name \in ConstNames \cup {"Const"} :
        pc = "run" /\ ValueOperator(SimpleOp(name))

ValuesSelect == pc = "run" /\ ValueOperator(SimpleOp("Select"))

ValuesLoad ==
    \E name \in LoadNames, offset \in {0, 2} :
        pc = "run" /\ ValueOperator(LoadOp(name, offset))

ValuesCount ==
    \E name \in CountNames : pc = "run" /\ ValueOperator(SimpleOp(name))

ValuesCompare ==
    \E name \in IntCompareNames \cup FloatCompareNames \cup EqzNames :
        pc = "run" /\ ValueOperator(SimpleOp(name))

\* The body ends with the results of the signature on the stack.
ValuesEnd == TopTypes(sig.return_types) /\ EndFunctionBody

NextValues ==
    \/ ValuesConst
    \/ ValuesSelect
    \/ ValuesLoad
    \/ ValuesCount
    \/ ValuesCompare
    \/ ValuesEnd

SpecValues == Init /\ [][NextValues]_vars

\* Bodies of operators that are no control flow, in blocks: the function
\* declares one local.
InitStack ==
    /\ sig \in Signatures
    /\ LET t == InitialTranslationWithLocal(sig)
       IN  /\ stack = t.stack
           /\ control_stack = t.control_stack
           /\ state = t.state
           /\ builder = t.builder
           /\ func_imports = t.func_imports
           /\ imported = t.imported
    /\ pc = "run"
    /\ nops = 0
    /\ op = NoOp
    /\ unreachable_op = FALSE
    /\ table_targets = {}
    /\ result = NotReturned
    /\ opened = <<>>
    /\ section = NoSection
    /\ prologue = LET locals == <<[count |-> 1, ty |-> "I32"]>>
                      signature == [argument_types |-> <<>>,
                                    return_types |-> sig.return_types]
                  IN  [locals |-> locals,
                       calls |-> FunctionPrologue(signature, locals).calls]
    /\ vctrl = <<VFrame("func", Len(sig.return_types), 0)>>
    /\ vheight = 0

StackOperator(o) == CodeOperatorBounded(o, MaxStackOps, MaxOperandStack)

StackConst == pc = "run" /\ StackOperator(SimpleOp("Const"))

StackLocal ==
    \E name \in {"GetLocal", "SetLocal", "TeeLocal"} :
        pc = "run" /\ StackOperator(IndexOp(name, 0))

StackMisc ==
    \E name \in {"Drop", "Select", "Nop"} :
        pc = "run" /\ StackOperator(SimpleOp(name))

StackStore ==
    \E name \in StoreNames, offset \in {0, 4} :
        pc = "run" /\ StackOperator(LoadOp(name, offset))

StackCall ==
    \/ \E index \in 1..Len(ModuleFunctions) :
          pc = "run" /\ StackOperator(IndexOp("Call", index))
    \/ \E index \in 1..Len(ModuleSignatures) :
          pc = "run" /\ StackOperator(IndexOp("CallIndirect", index))

StackBlock ==
    \E ty \in BlockTypes :
        pc = "run" /\ StackOperator(MkOp("Block", ty, 0, <<>>, 0, <<>>))

StackEnd == pc = "run" /\ StackOperator(SimpleOp("End"))

NextStack ==
    \/ StackConst
    \/ StackLocal
    \/ StackMisc
    \/ StackStore
    \/ StackCall
    \/ StackBlock
    \/ StackEnd
    \/ EndFunctionBody

SpecStack == InitStack /\ [][NextStack]_vars

\* Bodies that go on after a branch, a return or an unreachable: the
\* operators of unreachable code are read as well.
SkipOperator(o) == CodeOperatorBounded(o, MaxSkipOps, MaxStack)

SkipPlain ==
    \/ \E name \in {"Const", "Drop", "Nop"} : pc = "run" /\ SkipOperator(SimpleOp(name))
    \/ \E index \in 1..Len(ModuleFunctions) :
          pc = "run" /\ SkipOperator(IndexOp("Call", index))

SkipBranch ==
    \/ \E name \in {"Unreachable", "Return"} : pc = "run" /\ SkipOperator(SimpleOp(name))
    \/ \E name \in {"Br", "BrIf"}, d \in 0..MaxDepth :
          pc = "run" /\ SkipOperator(MkOp(name, "EmptyBlock", d, <<>>, 0, <<>>))
    \/ \E depths \in SeqUpTo(0..MaxDepth, 1), default \in 0..MaxDepth :
          \E order \in Orders(Range(depths)) :
              /\ pc = "run"
              /\ SkipOperator(MkOp("BrTable", "EmptyBlock", 0, depths, default, order))

SkipOpen ==
    \E name \in {"Block", "Loop", "If"}, ty \in BlockTypes :
        pc = "run" /\ SkipOperator(MkOp(name, ty, 0, <<>>, 0, <<>>))

SkipElse == pc = "run" /\ SkipOperator(SimpleOp("Else"))

SkipEnd == pc = "run" /\ SkipOperator(SimpleOp("End"))

NextSkip ==
    \/ SkipPlain
    \/ SkipBranch
    \/ SkipOpen
    \/ SkipElse
    \/ SkipEnd
    \/ EndFunctionBody

SpecSkip == Init /\ [][NextSkip]_vars

\* Functions with arguments and declared locals: the prologue has run, the
\* body reads and writes the locals.
LocalSignatures ==
    {[argument_types |-> a, return_types |-> <<>>] : a \in SeqUpTo(LocalTypes, MaxArgs)}

LocalGroups == {[count |-> c, ty |-> ty] : c \in 0..MaxCount, ty \in LocalTypes}

InitLocals ==
    /\ sig \in LocalSignatures
    /\ \E locals \in SeqUpTo(LocalGroups, MaxGroups) :
          LET p == FunctionPrologue(sig, locals)
              t == p.translation
          IN  /\ stack = t.stack
              /\ control_stack = t.control_stack
              /\ state = t.state
              /\ builder = t.builder
              /\ func_imports = t.func_imports
              /\ imported = t.imported
              /\ prologue = [locals |-> locals, calls |-> p.calls]
    /\ section = NoSection
    /\ pc = "run"
    /\ nops = 0
    /\ op = NoOp
    /\ unreachable_op = FALSE
    /\ table_targets = {}
    /\ result = NotReturned
    /\ opened = <<>>
    /\ vctrl = <<VFrame("func", Len(sig.return_types), 0)>>
    /\ vheight = 0

LocalsOperator(o) == CodeOperatorBounded(o, MaxLocalOps, MaxOperandStack)

LocalsGet ==
    \E local_index \in 0..(MaxArgs + MaxGroups * MaxCount) :
        pc = "run" /\ LocalsOperator(IndexOp("GetLocal", local_index))

LocalsSet ==
    \E local_index \in 0..(MaxArgs + MaxGroups * MaxCount) :
        pc = "run" /\ LocalsOperator(IndexOp("SetLocal", local_index))

LocalsDrop == pc = "run" /\ LocalsOperator(SimpleOp("Drop"))

NextLocals ==
    \/ LocalsGet
    \/ LocalsSet
    \/ LocalsDrop
    \/ EndFunctionBody

SpecLocals == InitLocals /\ [][NextLocals]_vars

\* ------------------------------------------------------------------ data section
\* An event of the parser: a ParserState.  index is the memory index of
\* BeginDataSectionEntry, operator, value and index the operator of
\* InitExpressionOperator, data the bytes of DataSectionEntryBody.
ParserEvent(event, operator, index, value, data) ==
    [event |-> event, operator |-> operator, index |-> index, value |-> value,
     data |-> data]

PlainEvent(event) == ParserEvent(event, "none", 0, 0, <<>>)

\* The globals of the module, by their initializer: an i32 constant and an
\* imported global.
ModuleGlobals ==
    <<[initializer |-> "I32Const", value |-> 4],
      [initializer |-> "Import", value |-> 0]>>

\* The data segments of the sections that are parsed: memory 0, an offset
\* that is an i32.const or a get_global, and the bytes.
InitExpressions ==
    {[operator |-> "I32Const", index |-> 0, value |-> v] : v \in {-1, 0, 8}}
        \cup {[operator |-> "GetGlobal", index |-> g, value |-> 0]
                  : g \in 1..Len(ModuleGlobals)}

DataSegments ==
    {[memory_index |-> 0, init |-> e, data |-> d]
        : e \in InitExpressions, d \in {<<>>, <<1>>}}

\* The events the parser delivers for one data segment: the `end` of the
\* offset expression is delivered as EndInitExpressionBody, and
\* EndDataSectionEntry follows the body of every segment.
SegmentEvents(segment) ==
    <<ParserEvent("BeginDataSectionEntry", "none", segment.memory_index, 0, <<>>),
      PlainEvent("BeginInitExpressionBody"),
      ParserEvent("InitExpressionOperator", segment.init.operator,
                  segment.init.index, segment.init.value, <<>>),
      PlainEvent("EndInitExpressionBody"),
      ParserEvent("DataSectionEntryBody", "none", 0, 0, segment.data),
      PlainEvent("EndDataSectionEntry")>>

\* The events of a data section, after BeginSection: those of its segments
\* and EndSection.
RECURSIVE SectionEvents(_)
SectionEvents(segments) ==
    IF segments = <<>> THEN <<PlainEvent("EndSection")>>
    ELSE SegmentEvents(Head(segments)) \o SectionEvents(Tail(segments))

\* Err(SectionParsingError::WrongSectionContent(_)), whatever the message.
WrongSectionContent == Err("WrongSectionContent")

\* Ok(()).
OkUnit == [kind |-> "Ok"]

\* parse_data_section is called on a data section: the parser is after
\* BeginSection.
InitData ==
    /\ sig = [return_types |-> <<>>]
    /\ LET t == InitialTranslation(sig)
       IN  /\ stack = t.stack
           /\ control_stack = t.control_stack
           /\ state = t.state
           /\ builder = t.builder
           /\ func_imports = t.func_imports
           /\ imported = t.imported
    /\ pc = "section"
    /\ nops = 0
    /\ op = NoOp
    /\ unreachable_op = FALSE
    /\ table_targets = {}
    /\ result = NotReturned
    /\ opened = <<>>
    /\ prologue = [locals |-> <<>>, calls |-> <<>>]
    /\ \E segments \in SeqUpTo(DataSegments, MaxSegments) :
          section = [NoSection EXCEPT !.segments = segments,
                                      !.events = SectionEvents(segments),
                                      !.at = "entry"]
    /\ vctrl = <<VFrame("func", 0, 0)>>
    /\ vheight = 0

\* The section when parser.read() has taken the next event off the stream.
AfterRead == [section EXCEPT !.events = Tail(@)]

\* parser.read() in parse_data_section at place `at` of the loop: the
\* section goes on as `next`.
DataRead(at, next) ==
    /\ pc = "section"
    /\ section.at = at
    /\ section.events # <<>>
    /\ section' = next
    /\ UNCHANGED <<sig, stack, control_stack, state, builder, func_imports,
                   imported, pc, nops, op, unreachable_op, table_targets, result,
                   opened, prologue, vctrl, vheight>>

DataReturn(s, value) == [s EXCEPT !.at = "returned", !.result = value]

\* The first read of the loop: a segment begins, or the loop is left.
DataReadEntry ==
    /\ section.at # "returned"
    /\ LET event == Head(section.events)
           next(s) ==
               CASE event.event = "BeginDataSectionEntry" ->
                       [s EXCEPT !.memory_index = event.index, !.at = "init_begin"]
                 [] event.event = "EndDataSectionEntry" -> DataReturn(s, OkUnit)
                 [] OTHER -> DataReturn(s, WrongSectionContent)
       IN  DataRead("entry", next(AfterRead))

DataReadInitBegin ==
    /\ section.at # "returned"
    /\ LET event == Head(section.events)
           next(s) ==
               IF event.event = "BeginInitExpressionBody"
               THEN [s EXCEPT !.at = "init_operator"]
               ELSE DataReturn(s, WrongSectionContent)
       IN  DataRead("init_begin", next(AfterRead))

\* The offset of the segment: the constant, or the constant a global is
\* initialised with.
DataReadInitOperator ==
    /\ section.at # "returned"
    /\ LET event == Head(section.events)
           value == IF event.operator = "I32Const" THEN event.value
                    ELSE ModuleGlobals[event.index].value
           next(s) ==
               CASE event.event # "InitExpressionOperator"
                       \/ event.operator \notin {"I32Const", "GetGlobal"} ->
                       DataReturn(s, WrongSectionContent)
                 [] event.operator = "GetGlobal"
                       /\ ModuleGlobals[event.index].initializer = "Import" ->
                       DataReturn(s, WrongSectionContent)
                 [] value < 0 -> DataReturn(s, WrongSectionContent)
                 [] OTHER -> [s EXCEPT !.offset = value, !.at = "init_end"]
       IN  DataRead("init_operator", next(AfterRead))

DataReadInitEnd ==
    /\ section.at # "returned"
    /\ LET event == Head(section.events)
           next(s) ==
               IF event.event = "EndInitExpressionBody"
               THEN [s EXCEPT !.at = "body"]
               ELSE DataReturn(s, WrongSectionContent)
       IN  DataRead("init_end", next(AfterRead))

\* The bytes of the segment are read and declared to the runtime, which
\* accepts them or not; then the loop starts again.
DataReadBody ==
    /\ section.at # "returned"
    /\ \E accepted \in BOOLEAN :
           LET event == Head(section.events)
               call  == [memory_index |-> section.memory_index,
                         offset |-> section.offset, data |-> event.data]
               next(s) ==
                   IF event.event # "DataSectionEntryBody"
                   THEN DataReturn(s, WrongSectionContent)
                   ELSE LET s1 == [s EXCEPT !.declared = Append(@, call)]
                        IN  IF accepted THEN [s1 EXCEPT !.at = "entry"]
                            ELSE DataReturn(s1, WrongSectionContent)
           IN  DataRead("body", next(AfterRead))

NextData ==
    \/ DataReadEntry
    \/ DataReadInitBegin
    \/ DataReadInitOperator
    \/ DataReadInitEnd
    \/ DataReadBody

\* parse_data_section on the data sections of at most MaxSegments segments.
SpecData == InitData /\ [][NextData]_vars

\* ------------------------------------------------------------------ properties
\* The frame on top of the control stack.
TopFrame == FrameAt(control_stack, 0)

\* The step read an `end` that popped a frame of the control stack.
EndPopsFrame ==
    /\ op'.name = "End"
    /\ pc' = "run"
    /\ Len(control_stack') = Len(control_stack) - 1

\* C1: when an `end` closes a real control frame whose destination EBB is
\* already the target of an emitted branch, the operators after the `end` are
\* translated by translate_operator: both unreachable depths are 0.
C1_EndOfTargetedFrameIsReachable ==
    [][(EndPopsFrame /\ BranchesTo(builder, following_code(TopFrame)) # {})
          => ~in_unreachable_code(state')]_vars

\* The EBBs that at least one branch, jump or jump table entry targets.
Targeted(b) == {e \in 1..Len(b.ebbs) : BranchesTo(b, e) # {}}

EndsWithTerminator(b, e) ==
    /\ Len(b.ebbs[e].insts) > 0
    /\ IsTerminator(b.ebbs[e].insts[Len(b.ebbs[e].insts)].opcode)

NoInstAfterTerminator(b) ==
    \A e \in 1..Len(b.ebbs) :
        \A i \in 1..(Len(b.ebbs[e].insts) - 1) :
            ~IsTerminator(b.ebbs[e].insts[i].opcode)

\* C2: when translate_function_body returns Ok, every EBB that is the target
\* of a branch ends with a terminator and no EBB holds an instruction after
\* a terminator.
C2_WellFormedFunction ==
    pc = "done" =>
        /\ \A e \in Targeted(builder) : EndsWithTerminator(builder, e)
        /\ NoInstAfterTerminator(builder)

\* C3: when the `end` of a Block or If frame that a table entry of a
\* translated br_table targets is met in unreachable state, the destination
\* of the frame is in br_table_reachable_ebbs and the code after the `end`
\* is reachable again.
C3_TableTargetReachableAtEnd ==
    [][(/\ EndPopsFrame
        /\ unreachable_op'
        /\ TopFrame.kind \in {"Block", "If"}
        /\ following_code(TopFrame) \in table_targets)
          => /\ following_code(TopFrame) \in state.br_table_reachable_ebbs
             /\ state'.real_unreachable_stack_depth = 0]_vars

\* The positions of the instructions of b.
InstsOf(b) ==
    UNION {{<<e, i>> : i \in 1..Len(b.ebbs[e].insts)} : e \in 1..Len(b.ebbs)}

InstAt(b, pos) == b.ebbs[pos[1]].insts[pos[2]]

\* C4: when the translation of a function is complete, every jump, brz and
\* brnz passes as many arguments as its target EBB has parameters.
C4_BranchArgsMatchParams ==
    pc = "done" =>
        \A pos \in InstsOf(builder) :
            IsBranch(InstAt(builder, pos).opcode) =>
                Len(InstAt(builder, pos).args) =
                    Len(builder.ebbs[InstAt(builder, pos).dest].params)

\* The frames the operator just read branches to, in the control stack it
\* was read on.
BranchTargets ==
    {FrameAt(control_stack, d) :
        d \in IF op'.name = "BrTable"
              THEN Range(op'.depths) \cup {op'.default}
              ELSE {op'.relative_depth}}

\* The step translated a br, br_if or br_table that targets a Loop frame.
BranchToLoop ==
    /\ op'.name \in {"Br", "BrIf", "BrTable"}
    /\ ~unreachable_op'
    /\ \E frame \in BranchTargets : is_loop(frame)

\* C5: a translated br, br_if or br_table whose target frame is a Loop
\* branches to the header of the loop with no argument, and takes nothing
\* but the branch condition off the value stack.
C5_LoopBranchPassesNothing ==
    [][BranchToLoop =>
          /\ pc' = "run"
          /\ \A pos \in InstsOf(builder') \ InstsOf(builder) :
                (/\ IsBranch(InstAt(builder', pos).opcode)
                 /\ \E frame \in BranchTargets :
                        /\ is_loop(frame)
                        /\ InstAt(builder', pos).dest = br_destination(frame))
                    => InstAt(builder', pos).args = <<>>
          /\ stack' = IF op'.name = "Br" THEN stack
                      ELSE SubSeq(stack, 1, Len(stack) - 1)]_vars

\* C6: between two operators, in reachable and in unreachable state, the
\* value stack is at least as long as the original_stack_size of the frame
\* on top of the control stack.
C6_StackAboveTopFrame ==
    pc = "run" => Len(stack) >= original_stack_size(TopFrame)

\* A br to a frame with a result, translated inside a frame that was entered
\* with a value on the stack: the unreachable code after it has exactly the
\* values the frame was entered with.
C6_Witness ==
    /\ pc = "run"
    /\ op.name = "Br"
    /\ in_unreachable_code(state)
    /\ Len(control_stack) >= 2
    /\ original_stack_size(TopFrame) >= 1
    /\ Len(stack) = original_stack_size(TopFrame)

\* C7: when translate_function_body returns Ok, every EBB the translation
\* created has been sealed exactly once.
C7_EverySealedOnce ==
    pc = "done" => \A e \in 1..Len(builder.ebbs) : builder.ebbs[e].sealed = 1

\* A translated function with six EBBs, each sealed once.
C7_Witness ==
    /\ pc = "done"
    /\ Len(builder.ebbs) >= 6
    /\ \A e \in 1..Len(builder.ebbs) : builder.ebbs[e].sealed = 1

\* C8: the header of a Loop frame is not sealed while the frame is on the
\* control stack, and the `end` that pops the frame seals it, in reachable
\* and in unreachable state.
C8_LoopHeaderSealedAtEnd ==
    [][/\ pc' = "run" =>
            \A k \in 1..Len(control_stack') :
                is_loop(control_stack'[k]) =>
                    builder'.ebbs[control_stack'[k].header].sealed = 0
       /\ (EndPopsFrame /\ is_loop(TopFrame)) =>
            builder'.ebbs[TopFrame.header].sealed = 1]_vars

\* `loop br 0 end`: the `end` is met in unreachable state, the EBB with the
\* back edge to itself is the header of the loop, and it is sealed.
C8_Witness ==
    /\ pc = "run"
    /\ op.name = "End"
    /\ unreachable_op
    /\ nops = 2
    /\ Len(control_stack) = 1
    /\ \E e \in 1..Len(builder.ebbs) :
          /\ builder.ebbs[e].sealed = 1
          /\ \E pos \in BranchesTo(builder, e) : pos[1] = e

\* C9: when translate_function_body returns Ok, every EBB that was put in
\* br_table_reachable_ebbs has been sealed and has been the current block.
C9_TableEbbsSealedAndVisited ==
    pc = "done" =>
        \A e \in state.br_table_reachable_ebbs :
            /\ builder.ebbs[e].sealed >= 1
            /\ e \in builder.visited

\* A translated function whose br_tables put two EBBs in the set, one of
\* them an EBB made for a jump table entry with jump arguments.
C9_Witness ==
    /\ pc = "done"
    /\ Cardinality(state.br_table_reachable_ebbs) >= 2
    /\ \E e \in state.br_table_reachable_ebbs :
          /\ Len(builder.ebbs[e].insts) = 1
          /\ builder.ebbs[e].insts[1].args # <<>>
          /\ builder.ebbs[e].sealed = 1
          /\ e \in builder.visited

\* No element of s occurs twice.
NoDuplicate(s) == \A i, j \in 1..Len(s) : s[i] = s[j] => i = j

\* The instruction the step inserted is a call of ref.
InsertedCallOf(ref) ==
    \E pos \in InstsOf(builder') \ InstsOf(builder) :
        /\ InstAt(builder', pos).opcode \in {"call", "call_indirect"}
        /\ InstAt(builder', pos).cond = ref

\* C10: translate_function_body calls import_function at most once for a
\* function index and import_signature at most once for a signature index,
\* and a lookup of an index that was looked up before returns the same
\* reference and leaves FunctionImports and the imports of the builder as
\* they are.
C10_ImportsDeclaredOnce ==
    [][/\ NoDuplicate(imported'.functions)
       /\ NoDuplicate(imported'.signatures)
       /\ (op'.name = "Call" /\ map_has(func_imports.functions, op'.index)) =>
            /\ func_imports' = func_imports
            /\ builder'.ext_funcs = builder.ext_funcs
            /\ builder'.signatures = builder.signatures
            /\ InsertedCallOf(map_get(func_imports.functions, op'.index))
       /\ (op'.name = "CallIndirect"
              /\ map_has(func_imports.signatures, op'.index)) =>
            /\ func_imports' = func_imports
            /\ builder'.signatures = builder.signatures
            /\ InsertedCallOf(map_get(func_imports.signatures, op'.index))]_vars

\* Two calls of one function: the function was imported once and both call
\* instructions name the same FuncRef.
C10_Witness ==
    /\ op.name = "Call"
    /\ NoDuplicate(imported.functions)
    /\ \E p, q \in InstsOf(builder) :
          /\ p # q
          /\ InstAt(builder, p).opcode = "call"
          /\ InstAt(builder, q).opcode = "call"
          /\ InstAt(builder, p).cond = InstAt(builder, q).cond

\* The instruction inserted last in the current EBB.
LastInst(b) == b.ebbs[b.cur].insts[Len(b.ebbs[b.cur].insts)]

\* The instruction that defines value v.
DefOf(b, v) ==
    CHOOSE inst \in UNION {Range(b.ebbs[e].insts) : e \in 1..Len(b.ebbs)} :
        v \in Range(inst.res)

\* The step translated the value operator it read.
Translates(names) == op'.name \in names /\ pc' = "run"

\* What Cretonne's select yields: its second operand when the first is
\* non-zero, its third operand otherwise.
il_select(inst, nonzero) == IF nonzero THEN inst.args[2] ELSE inst.args[3]

\* What WebAssembly's select yields on the operands a, b, cond, cond on top.
wasm_select(a, b, nonzero) == IF nonzero THEN a ELSE b

\* C11: select translated on the stack [..., a, b, cond] pushes the value
\* that WebAssembly's select yields: a when cond is non-zero, b when it is
\* zero.
C11_SelectYieldsWasmResult ==
    [][Translates({"Select"}) =>
          /\ stack'[Len(stack')] = LastInst(builder').res[1]
          /\ \A nonzero \in BOOLEAN :
                il_select(LastInst(builder'), nonzero)
                    = wasm_select(stack[Len(stack) - 2], stack[Len(stack) - 1],
                                  nonzero)]_vars

\* C12: select pops cond, b and a and inserts select(cond, b, a): the second
\* operand was second from the top of the stack, the third was below it; one
\* instruction is inserted and its one result is pushed.
C12_SelectOperandOrder ==
    [][Translates({"Select"}) =>
          /\ Cardinality(InstsOf(builder') \ InstsOf(builder)) = 1
          /\ LastInst(builder').opcode = "select"
          /\ LastInst(builder').args = <<stack[Len(stack)], stack[Len(stack) - 1],
                                         stack[Len(stack) - 2]>>
          /\ Len(LastInst(builder').res) = 1
          /\ stack' = Append(SubSeq(stack, 1, Len(stack) - 3),
                             LastInst(builder').res[1])]_vars

\* A select of three different values was translated.
C12_Witness ==
    /\ pc = "run"
    /\ op.name = "Select"
    /\ LastInst(builder).opcode = "select"
    /\ Cardinality(Range(LastInst(builder).args)) = 3
    /\ stack = <<LastInst(builder).res[1]>>

\* The load instruction and the result type the lowering table gives for
\* the 16-bit loads.
table_load(name) ==
    CASE name = "I32Load16U" -> [opcode |-> "uload16", ty |-> "I32"]
      [] name = "I32Load16S" -> [opcode |-> "sload16", ty |-> "I32"]
      [] name = "I64Load16U" -> [opcode |-> "uload16", ty |-> "I64"]
      [] name = "I64Load16S" -> [opcode |-> "sload16", ty |-> "I64"]

\* C13: every 16-bit load is lowered as the table says: load16_u to uload16,
\* load16_s to sload16, with the result type I32 or I64 of the operator.
C13_Load16Lowering ==
    [][Translates(LoadNames) =>
          /\ LastInst(builder').opcode = table_load(op'.name).opcode
          /\ LastInst(builder').ty = table_load(op'.name).ty
          /\ stack'[Len(stack')] = LastInst(builder').res[1]]_vars

CompareNames == IntCompareNames \cup FloatCompareNames \cup EqzNames

\* The Wasm result width of a comparison or a bit count.
result_width(name) ==
    IF name \in {"I64Clz", "I64Ctz", "I64Popcnt"} THEN "I64" ELSE "I32"

\* The value pushed is the result of an instruction `opcode` of type ty on
\* the result of an instruction among raw.
PushedIs(opcode, ty, raw) ==
    LET top == DefOf(builder', stack'[Len(stack')])
    IN  /\ top.opcode = opcode
        /\ top.ty = ty
        /\ Len(top.args) = 1
        /\ DefOf(builder', top.args[1]).opcode \in raw

\* C14, as stated: every comparison (eqz too) and every clz, ctz and popcnt
\* pushes the sextend of the raw IL result to the Wasm result width.
C14_AllSignExtended ==
    [][Translates(CompareNames \cup CountNames) =>
          PushedIs("sextend", result_width(op'.name),
                   {"icmp", "icmp_imm", "fcmp", "clz", "ctz", "popcnt"})]_vars

\* C14, amended: clz, ctz and popcnt push the sextend of the count to I32 or
\* I64; the comparisons push bint(I32, c), c the result of the icmp,
\* icmp_imm or fcmp.
C14_CountsExtendedComparisonsBint ==
    [][/\ Translates(CountNames) =>
            PushedIs("sextend", result_width(op'.name), {"clz", "ctz", "popcnt"})
       /\ Translates(CompareNames) =>
            PushedIs("bint", "I32", {"icmp", "icmp_imm", "fcmp"})]_vars

\* A float comparison of two constants was translated: a bint of the fcmp
\* is on the stack.
C14_Witness ==
    /\ pc = "run"
    /\ op.name \in FloatCompareNames
    /\ LastInst(builder).opcode = "bint"
    /\ stack = <<LastInst(builder).res[1]>>

\* C15: when the parser delivers an event that is neither CodeOperator nor
\* EndFunctionBody, translate_function_body returns an Err, which holds no
\* function and no FunctionImports, and reads no event after it, whatever
\* was translated before.
C15_DesyncReturnsErr ==
    [][/\ op'.name = "Other" =>
            /\ pc' = "err"
            /\ result'.kind = "Err"
            /\ DOMAIN result' \cap {"func", "func_imports"} = {}
       /\ pc # "run" => UNCHANGED vars]_vars

\* The Err was returned after two functions had been imported and their
\* calls inserted.
C15_Witness ==
    /\ pc = "err"
    /\ result = Err("wrong content in function body")
    /\ Len(func_imports.functions) >= 2
    /\ Len(builder.ebbs[1].insts) >= 2

\* C16: the translation is a function of the operator stream: whatever the
\* order in which the HashMap dest_ebbs of a br_table is iterated, the
\* function built is the same, EBB layout and instruction order included.
C16_Deterministic ==
    [][(op'.name = "BrTable" /\ ~unreachable_op' /\ pc' = "run") =>
          \A order \in Orders(Range(op'.depths)) :
              translate_operator([op' EXCEPT !.order = order], Translation,
                                 sig).builder = builder']_vars

\* The positions of the return instructions of b.
Returns(b) == {pos \in InstsOf(b) : InstAt(b, pos).opcode = "return"}

\* C17: a body of straight-line operators, the empty body too, is translated
\* to a function with one return: the last instruction of the entry EBB,
\* on the top values of the stack, as many as the signature returns, in the
\* order they were pushed; the end EBB of the function gets no instruction.
C17_StraightLineReturnsOnce ==
    [][(op'.name = "EndFunctionBody" /\ pc' = "done") =>
          /\ Cardinality(Returns(builder')) = 1
          /\ Len(builder'.ebbs[1].insts) >= 1
          /\ Returns(builder') = {<<1, Len(builder'.ebbs[1].insts)>>}
          /\ \A pos \in Returns(builder') :
                InstAt(builder', pos).args =
                    SubSeq(stack, Len(stack) - Len(sig.return_types) + 1, Len(stack))
          /\ builder'.ebbs[following_code(control_stack[1])].insts = <<>>]_vars

\* C18: each operator the driver loop reads is handled by the reachable
\* translator if and only if the phantom and the real unreachable depths sum
\* to zero before it, and by the unreachable translator otherwise: the
\* translation after the operator is what that one translator makes of it.
C18_OneTranslatorPerOperator ==
    [][(pc = "run" /\ op'.name # "EndFunctionBody") =>
          LET depth == state.phantom_unreachable_stack_depth
                           + state.real_unreachable_stack_depth
              handled == IF depth = 0
                         THEN translate_operator(op', Translation, sig)
                         ELSE translate_unreachable_operator(op', Translation)
          IN  /\ stack' = handled.stack
              /\ control_stack' = handled.control_stack
              /\ state' = handled.state
              /\ builder' = handled.builder
              /\ func_imports' = handled.func_imports
              /\ pc' = IF handled.panicked THEN "panic" ELSE "run"]_vars

\* A block opened in unreachable code after translated code: counted as a
\* phantom frame, no frame pushed, no EBB created for it.
C18_Witness ==
    /\ pc = "run"
    /\ op.name = "Block"
    /\ state.phantom_unreachable_stack_depth = 1
    /\ state.real_unreachable_stack_depth = 1
    /\ Len(control_stack) = 2
    /\ Returns(builder) # {}

\* The frame translate_function_body pushes before the loop.
IsFunctionFrame(frame) ==
    /\ frame.kind = "Block"
    /\ original_stack_size(frame) = 0
    /\ return_values(frame) = sig.return_types

\* C19: between two operators of a body whose `end`s match its openers the
\* control stack is not empty and its bottom frame is the function's Block
\* frame, with original_stack_size 0 and the return types of the signature;
\* nothing but the epilogue after EndFunctionBody pops that frame.
C19_FunctionFrameAtBottom ==
    [][/\ pc = "run" =>
             /\ Len(control_stack) >= 1
             /\ IsFunctionFrame(control_stack[1])
       /\ pc' = "run" =>
             /\ Len(control_stack') >= 1
             /\ IsFunctionFrame(control_stack'[1])
             /\ control_stack'[1] = control_stack[1]
       /\ Len(control_stack') = 0 => op'.name = "EndFunctionBody"]_vars

\* An `end` read in unreachable code has popped the last frame above the
\* function frame.
C19_Witness ==
    /\ pc = "run"
    /\ op.name = "End"
    /\ unreachable_op
    /\ state.real_unreachable_stack_depth = 0
    /\ nops >= 3
    /\ Len(control_stack) = 1
    /\ IsFunctionFrame(control_stack[1])

\* The destination EBB of the frame has one formal parameter for each of
\* the frame's return types.
DestinationCarriesReturns(frame) ==
    Len(ebb_args(builder, following_code(frame))) = Len(return_values(frame))

PlainNames ==
    {"Const", "Drop", "Select", "Nop", "GetLocal", "SetLocal", "TeeLocal",
     "Call", "CallIndirect"} \cup StoreNames

\* The stack effect WebAssembly gives an operator: results pushed minus
\* operands popped.
wasm_stack_effect(o) ==
    CASE o.name \in {"Const", "GetLocal"}      -> 1
      [] o.name \in {"Nop", "TeeLocal"}        -> 0
      [] o.name \in {"Drop", "SetLocal"}       -> -1
      [] o.name = "Select"                     -> -2
      [] o.name \in StoreNames                 -> -2
      [] o.name = "Call" ->
            LET callee == ModuleSignatures[ModuleFunctions[o.index]]
            IN  Len(callee.return_types) - Len(callee.argument_types)
      [] o.name = "CallIndirect" ->
            LET callee == ModuleSignatures[o.index]
            IN  Len(callee.return_types) - Len(callee.argument_types) - 1

Tail_n(s, n) == SubSeq(s, Len(s) - n + 1, Len(s))

Reachable(name) ==
    pc = "run" /\ op'.name = name /\ ~in_unreachable_code(state)

\* C23: br_if pops the condition and leaves the rest of the value stack as
\* it was, leaves the control stack, the two unreachable depths and
\* br_table_reachable_ebbs unchanged, and the translator is in reachable
\* state afterwards.
C23_BrIfKeepsStack ==
    [][Reachable("BrIf") =>
          /\ pc' = "run"
          /\ stack' = SubSeq(stack, 1, Len(stack) - 1)
          /\ control_stack' = control_stack
          /\ state'.phantom_unreachable_stack_depth
                = state.phantom_unreachable_stack_depth
          /\ state'.real_unreachable_stack_depth = state.real_unreachable_stack_depth
          /\ state'.br_table_reachable_ebbs = state.br_table_reachable_ebbs
          /\ ~in_unreachable_code(state')]_vars

\* The instructions the step added to the function.
Emitted == InstsOf(builder') \ InstsOf(builder)

\* The step added one instruction, at the end of the current EBB.
EmittedOne ==
    Emitted = {<<builder.cur, Len(builder.ebbs[builder.cur].insts) + 1>>}

\* C24: br d in reachable state emits one jump, to br_destination of the
\* frame at relative depth d, sets real_unreachable_stack_depth to 1 + d and
\* leaves the control stack and phantom_unreachable_stack_depth unchanged;
\* when the frame is no loop the jump takes the return values of the frame
\* off the end of the value stack, in their order.
C24_BrJumps ==
    [][Reachable("Br") =>
          LET d     == op'.relative_depth
              frame == FrameAt(control_stack, d)
              n     == Len(return_values(frame))
          IN  /\ pc' = "run"
              /\ EmittedOne
              /\ \A pos \in Emitted :
                    /\ InstAt(builder', pos).opcode = "jump"
                    /\ InstAt(builder', pos).dest = br_destination(frame)
                    /\ ~is_loop(frame) => InstAt(builder', pos).args = Tail_n(stack, n)
              /\ state'.real_unreachable_stack_depth = 1 + d
              /\ state'.phantom_unreachable_stack_depth
                    = state.phantom_unreachable_stack_depth
              /\ control_stack' = control_stack
              /\ ~is_loop(frame) => stack' = SubSeq(stack, 1, Len(stack) - n)]_vars

\* A br out of two frames that carries a value.
C24_Witness ==
    /\ pc = "run"
    /\ op.name = "Br"
    /\ op.relative_depth = 2
    /\ state.real_unreachable_stack_depth = 3
    /\ LastInst(builder).opcode = "jump"
    /\ Len(LastInst(builder).args) = 1
    /\ LastInst(builder).dest = following_code(control_stack[1])

\* C25: return in reachable state takes as many values as the signature
\* returns off the end of the value stack, emits one return with them in
\* their order and leaves last_inst_return true and
\* real_unreachable_stack_depth 1, at any depth; every other operator the
\* reachable translator handles leaves last_inst_return false.
C25_ReturnRecorded ==
    [][/\ Reachable("Return") =>
             LET n == Len(sig.return_types)
             IN  /\ pc' = "run"
                 /\ EmittedOne
                 /\ \A pos \in Emitted :
                       /\ InstAt(builder', pos).opcode = "return"
                       /\ InstAt(builder', pos).args = Tail_n(stack, n)
                 /\ stack' = SubSeq(stack, 1, Len(stack) - n)
                 /\ state'.last_inst_return
                 /\ state'.real_unreachable_stack_depth = 1
       /\ (/\ pc = "run"
           /\ pc' = "run"
           /\ ~in_unreachable_code(state)
           /\ op'.name # "Return") => ~state'.last_inst_return]_vars

\* A return inside two blocks, with a value.
C25_Witness ==
    /\ pc = "run"
    /\ op.name = "Return"
    /\ Len(control_stack) = 3
    /\ state.last_inst_return
    /\ state.real_unreachable_stack_depth = 1
    /\ LastInst(builder).opcode = "return"
    /\ Len(LastInst(builder).args) = 1

\* The number of jump arguments the BrTable arm computes for the operator
\* read by the step: the return values of the frame at the least depth.
jump_args_count_of(o) ==
    Len(return_values(FrameAt(control_stack, min_depth_of(o.depths, o.default))))

\* C26: a br_table with jump arguments and a table that is not empty
\* creates one intermediate EBB for each distinct depth of the table; entry
\* i of the jump table is the intermediate EBB of depths[i]; each
\* intermediate EBB is sealed and holds one instruction, a jump with the jump
\* arguments to br_destination of the frame at its depth; the default target
\* gets a jump with the same arguments directly.
C26_TableEdgesSplit ==
    [][(/\ Reachable("BrTable")
        /\ Len(op'.depths) > 0
        /\ jump_args_count_of(op') > 0) =>
          LET depths    == op'.depths
              base      == Len(builder.ebbs)
              created   == (base + 1)..Len(builder'.ebbs)
              cur       == builder.ebbs[builder.cur].insts
              cur1      == builder'.ebbs[builder.cur].insts
              table     == cur1[Len(cur) + 1].table
              jump_args == Tail_n(SubSeq(stack, 1, Len(stack) - 1),
                                  jump_args_count_of(op'))
          IN  /\ pc' = "run"
              /\ Cardinality(created) = Cardinality(Range(depths))
              /\ Len(cur1) = Len(cur) + 2
              /\ cur1[Len(cur) + 1].opcode = "br_table"
              /\ Len(table) = Len(depths)
              /\ Range(table) = created
              /\ \A i, j \in 1..Len(depths) :
                    (table[i] = table[j]) <=> (depths[i] = depths[j])
              /\ \A i \in 1..Len(depths) :
                    /\ builder'.ebbs[table[i]].sealed = 1
                    /\ Len(builder'.ebbs[table[i]].insts) = 1
                    /\ LET jump == builder'.ebbs[table[i]].insts[1]
                       IN  /\ jump.opcode = "jump"
                           /\ jump.dest = br_destination(FrameAt(control_stack, depths[i]))
                           /\ jump.args = jump_args
              /\ LET jump == cur1[Len(cur) + 2]
                 IN  /\ jump.opcode = "jump"
                     /\ jump.dest = br_destination(FrameAt(control_stack, op'.default))
                     /\ jump.args = jump_args]_vars

\* C27: after a br_table translated in reachable state
\* real_unreachable_stack_depth is 1 + the least of the depths of the table
\* and the default depth, the control stack is unchanged, and the value
\* stack is the stack before the operator without the condition.
C27_TableLeavesStack ==
    [][Reachable("BrTable") =>
          /\ pc' = "run"
          /\ state'.real_unreachable_stack_depth
                = 1 + min_depth_of(op'.depths, op'.default)
          /\ control_stack' = control_stack
          /\ stack' = SubSeq(stack, 1, Len(stack) - 1)]_vars

\* C28: in unreachable state an operator that is no block, loop, if, else
\* or end leaves the value stack, the control stack, the translation state
\* (both depths, last_inst_return, br_table_reachable_ebbs) and the function
\* unchanged; and no operator the unreachable translator handles adds an
\* instruction.
C28_SkippedOperators ==
    [][(pc = "run" /\ in_unreachable_code(state) /\ op'.name # "EndFunctionBody") =>
          /\ Emitted = {}
          /\ op'.name \notin {"Block", "Loop", "If", "Else", "End"} =>
                /\ pc' = "run"
                /\ stack' = stack
                /\ control_stack' = control_stack
                /\ state' = state
                /\ builder' = builder
                /\ func_imports' = func_imports]_vars

\* A call skipped after a return inside a block: last_inst_return is still
\* true and nothing was imported.
C28_Witness ==
    /\ pc = "run"
    /\ op.name = "Call"
    /\ unreachable_op
    /\ state.last_inst_return
    /\ Len(control_stack) = 2
    /\ func_imports = NewFunctionImports
    /\ LastInst(builder).opcode = "return"

\* The number of open constructs whose opener was read in unreachable
\* state (skipped = TRUE), in reachable state (skipped = FALSE).
Opened(skipped) == Cardinality({i \in 1..Len(opened) : opened[i] = skipped})

\* C29: between two operators phantom_unreachable_stack_depth is the number
\* of open constructs that were opened in unreachable state, and the control
\* stack holds, above the function frame, one frame for each open construct
\* that was opened in reachable state; an opener read in unreachable state
\* pushes no frame, and the `end` or `else` that matches it leaves the
\* control stack as it is.
C29_PhantomCountsSkippedOpeners ==
    [][/\ pc' = "run" =>
             /\ state'.phantom_unreachable_stack_depth = Opened(TRUE)'
             /\ Len(control_stack') - 1 = Opened(FALSE)'
       /\ (/\ pc = "run"
           /\ \/ op'.name \in {"Block", "Loop", "If"} /\ in_unreachable_code(state)
              \/ /\ op'.name \in {"End", "Else"}
                 /\ Len(opened) > 0
                 /\ opened[Len(opened)])
             => pc' = "run" /\ control_stack' = control_stack]_vars

\* The `end` of a construct that was opened in unreachable code, inside a
\* block that was opened in reachable code.
C29_Witness ==
    /\ pc = "run"
    /\ op.name = "End"
    /\ unreachable_op
    /\ opened = <<FALSE>>
    /\ state.phantom_unreachable_stack_depth = 0
    /\ state.real_unreachable_stack_depth > 0
    /\ Len(control_stack) = 2
    /\ nops >= 3

\* C30: an `else` read in unreachable state with no phantom frame and an If
\* frame on top leaves both unreachable depths 0, whatever the real depth
\* was, and the If frame on top of the control stack; the brz of the frame
\* goes to a new EBB, which is sealed and is the current EBB; the value
\* stack is truncated to original_stack_size of the frame and
\* last_inst_return is false.
C30_ElseAfterUnreachableThen ==
    [][(/\ pc = "run"
        /\ op'.name = "Else"
        /\ in_unreachable_code(state)
        /\ state.phantom_unreachable_stack_depth = 0
        /\ TopFrame.kind = "If") =>
          LET else_ebb == Len(builder.ebbs) + 1
          IN  /\ pc' = "run"
              /\ state'.phantom_unreachable_stack_depth = 0
              /\ state'.real_unreachable_stack_depth = 0
              /\ ~state'.last_inst_return
              /\ control_stack' = control_stack
              /\ Len(builder'.ebbs) = else_ebb
              /\ InstAt(builder', TopFrame.branch_inst).opcode = "brz"
              /\ InstAt(builder', TopFrame.branch_inst).dest = else_ebb
              /\ builder'.ebbs[else_ebb].sealed = 1
              /\ builder'.cur = else_ebb
              /\ stack' = SubSeq(stack, 1, Min(Len(stack), original_stack_size(TopFrame)))]_vars

\* The `else` of an if whose then-branch ends with a br out of the
\* function block, two frames below the if.
C30_Witness ==
    /\ pc = "run"
    /\ op.name = "Else"
    /\ unreachable_op
    /\ ~in_unreachable_code(state)
    /\ Len(control_stack) = 3
    /\ TopFrame.kind = "If"
    /\ BranchesTo(builder, following_code(control_stack[1])) # {}
    /\ InstAt(builder, TopFrame.branch_inst).dest = builder.cur

UnreachableEndOfIf ==
    /\ pc = "run"
    /\ op'.name = "End"
    /\ in_unreachable_code(state)
    /\ state.phantom_unreachable_stack_depth = 0
    /\ TopFrame.kind = "If"

\* The `else` of the construct that is open innermost has been read.
ElseSeen == VTop.kind = "else"

\* C32 as stated: an `end` read in unreachable state that closes an If frame
\* leaves real_unreachable_stack_depth 0 when no `else` was read for the
\* frame or the destination of the frame is in br_table_reachable_ebbs;
\* when the `else` of the frame was read, the depth is the depth before the
\* `end` less 1.
C32_IfEndResetsOnlyWithoutElse ==
    [][UnreachableEndOfIf =>
          /\ pc' = "run"
          /\ state'.real_unreachable_stack_depth =
                IF \/ ~ElseSeen
                   \/ following_code(TopFrame) \in state.br_table_reachable_ebbs
                THEN 0
                ELSE state.real_unreachable_stack_depth - 1]_vars

\* C32, amended: an `end` read in unreachable state that closes an If frame
\* leaves both unreachable depths 0, whether the `else` of the frame was
\* read or not and whatever the real depth was: the operators after the
\* `end` are translated; the frame is popped, the destination of the frame
\* is the current EBB and is sealed, and last_inst_return is false.
C32_IfEndAlwaysResets ==
    [][UnreachableEndOfIf =>
          /\ pc' = "run"
          /\ state'.real_unreachable_stack_depth = 0
          /\ state'.phantom_unreachable_stack_depth = 0
          /\ ~state'.last_inst_return
          /\ control_stack' = SubSeq(control_stack, 1, Len(control_stack) - 1)
          /\ builder'.cur = following_code(TopFrame)
          /\ builder'.ebbs[following_code(TopFrame)].sealed = 1]_vars

\* The `end` of an if in the function block whose else-branch ends with a
\* br out of the function block (real depth 2): the brz of the if was moved
\* to the EBB of the else-branch, and the code after the `end` is reachable.
C32_Witness ==
    /\ pc = "run"
    /\ op.name = "End"
    /\ unreachable_op
    /\ ~in_unreachable_code(state)
    /\ Len(control_stack) = 1
    /\ \E pos \in InstsOf(builder) :
          LET brz == InstAt(builder, pos)
          IN  /\ brz.opcode = "brz"
              /\ brz.dest # builder.cur
              /\ Len(builder.ebbs[brz.dest].insts) > 0
              /\ LET last == builder.ebbs[brz.dest].insts[Len(builder.ebbs[brz.dest].insts)]
                 IN  /\ last.opcode = "jump"
                     /\ last.dest = following_code(control_stack[1])

\* The calls of the prologue to `call`, in their order.
CallsTo(call) == SelectSeq(prologue.calls, LAMBDA c : c.call = call)

\* The constants the prologue has inserted, in their order.
ZeroCalls ==
    SelectSeq(prologue.calls, LAMBDA c : c.call \notin {"declare_var", "def_var"})

\* The index of the first local of group g: the arguments and the locals of
\* the groups before g come first.
RECURSIVE FirstLocal(_)
FirstLocal(g) ==
    IF g = 1 THEN Len(sig.argument_types)
    ELSE FirstLocal(g - 1) + prologue.locals[g - 1].count

\* The locals of a function: its arguments and its declared locals.
LocalsCount == FirstLocal(Len(prologue.locals) + 1)

\* C33: the prologue calls declare_var and def_var once for each of
\* Local(0), ..., Local(n + sum of the counts - 1), in this order; argument
\* i has the type of the signature and is defined as the i-th parameter of
\* the entry EBB; one constant is inserted for each group of declared
\* locals, also for a group of no locals: an iconst for I32 and I64, an
\* f32const or f64const for F32 and F64, of the type of the group; the locals
\* of group g have the indices after those of the groups before, the type of
\* the group and are all defined as the constant of the group; when the
\* first operator is read the builder knows each local with this type and
\* this value.
C33_LocalsDeclaredOnce ==
    LET n       == Len(sig.argument_types)
        locals  == prologue.locals
        dense   == [i \in 1..LocalsCount |-> i - 1]
        declare == CallsTo("declare_var")
        def     == CallsTo("def_var")
        entry   == 1
    IN  /\ [i \in 1..Len(declare) |-> declare[i].var] = dense
        /\ [i \in 1..Len(def) |-> def[i].var] = dense
        /\ Len(ebb_args(builder, entry)) = n
        /\ \A i \in 1..n :
              /\ declare[i].ty = sig.argument_types[i]
              /\ def[i].val = ebb_args(builder, entry)[i]
        /\ Len(ZeroCalls) = Len(locals)
        /\ Len(builder.ebbs[entry].insts) >= Len(locals)
        /\ \A g \in 1..Len(locals) :
              /\ ZeroCalls[g].call = zero_constant(locals[g].ty)
              /\ ZeroCalls[g].ty = locals[g].ty
              /\ builder.ebbs[entry].insts[g].opcode = zero_constant(locals[g].ty)
              /\ builder.ebbs[entry].insts[g].ty = locals[g].ty
              /\ builder.ebbs[entry].insts[g].res = <<ZeroCalls[g].val>>
              /\ \A k \in 1..locals[g].count :
                    /\ declare[FirstLocal(g) + k].ty = locals[g].ty
                    /\ def[FirstLocal(g) + k].val = ZeroCalls[g].val
        /\ \A g, h \in 1..Len(locals) : g # h => ZeroCalls[g].val # ZeroCalls[h].val
        /\ (pc = "run" /\ nops = 0) =>
              /\ Len(builder.ebbs[entry].insts) = Len(locals)
              /\ Len(builder.vars) = LocalsCount
              /\ Len(builder.types) = LocalsCount
              /\ \A i \in 1..LocalsCount :
                    /\ use_var(builder, i - 1) = def[i].val
                    /\ map_get(builder.types, i - 1) = declare[i].ty

\* A function of two arguments with a group of no locals between two
\* groups of two locals: five constants would be one too many, and the last
\* local is Local(5).
C33_Witness ==
    /\ pc = "run"
    /\ nops = 0
    /\ Len(sig.argument_types) = 2
    /\ Len(prologue.locals) = 2
    /\ prologue.locals[1].count = 0
    /\ prologue.locals[1].ty = "F32"
    /\ prologue.locals[2].count = 2
    /\ prologue.locals[2].ty = "I64"
    /\ Len(builder.ebbs[1].insts) = 2
    /\ builder.ebbs[1].insts[1].opcode = "f32const"
    /\ use_var(builder, 2) = use_var(builder, 3)
    /\ use_var(builder, 3) = builder.ebbs[1].insts[2].res[1]
    /\ ~map_has(builder.vars, 4)

\* The test of the driver before the implicit return.
ImplicitReturn ==
    /\ ~state.last_inst_return
    /\ ~is_filled(builder)
    /\ (~is_unreachable(builder) \/ ~is_pristine(builder))

\* C34: when EndFunctionBody is read the epilogue does not abort: if the
\* driver emits the implicit return, the value stack holds at least as many
\* values as the signature returns; every return the epilogue emits, the
\* implicit one in the current EBB and the trailing one in the end EBB of
\* the function, carries exactly that many values; and the epilogue emits
\* nothing but returns.
C34_EpilogueReturnsHaveValues ==
    [][(pc = "run" /\ op'.name = "EndFunctionBody") =>
          LET n == Len(sig.return_types)
          IN  /\ pc' = "done"
              /\ ImplicitReturn => Len(stack) >= n
              /\ ImplicitReturn => <<builder.cur, Len(builder.ebbs[builder.cur].insts) + 1>>
                                       \in Emitted
              /\ \A pos \in Emitted :
                    /\ InstAt(builder', pos).opcode = "return"
                    /\ Len(InstAt(builder', pos).args) = n
                    /\ pos[1] \in {builder.cur, following_code(control_stack[1])}]_vars

\* C35: no EBB holds an instruction after a terminator; whenever the next
\* operator goes to translate_operator the current EBB is not filled; and
\* the returns of the epilogue are the first terminators of their EBBs.
C35_NoInstructionAfterTerminator ==
    /\ NoInstAfterTerminator(builder)
    /\ (pc = "run" /\ ~in_unreachable_code(state)) => ~is_filled(builder)
    /\ \A e \in 1..Len(builder.ebbs) :
          builder.ebbs[e].filled <=>
              \E i \in 1..Len(builder.ebbs[e].insts) :
                  IsTerminator(builder.ebbs[e].insts[i].opcode)

\* A function that returns a value and ends after a br_if to its own
\* block: the driver emitted the implicit return after the brnz, and the
\* trailing return in the end EBB of the function, which held no
\* instruction.
C35_Witness ==
    /\ pc = "done"
    /\ Len(sig.return_types) = 1
    /\ ~state.last_inst_return
    /\ BranchesTo(builder, builder.cur) # {}
    /\ builder.ebbs[builder.cur].insts
          = <<MkInst("return", NoValue, NoEbb, ebb_args(builder, builder.cur), <<>>, <<>>)>>
    /\ \E e \in 1..Len(builder.ebbs) :
          /\ e # builder.cur
          /\ Len(builder.ebbs[e].insts) > 1
          /\ LET n == Len(builder.ebbs[e].insts)
             IN  /\ builder.ebbs[e].insts[n].opcode = "return"
                 /\ builder.ebbs[e].insts[n - 1].opcode = "brnz"

\* What parse_data_section is to declare for a segment.
DataInitialization(segment) ==
    [memory_index |-> segment.memory_index,
     offset |-> IF segment.init.operator = "I32Const" THEN segment.init.value
                ELSE ModuleGlobals[segment.init.index].value,
     data |-> segment.data]

\* C36: when parse_data_section has returned Ok on a data section of k
\* segments, it has called declare_data_initialization k times, once for
\* each segment in the order of the section, with the memory index, the
\* offset and the bytes of the segment, and the parser has delivered all
\* events of the section, EndSection included.
C36_EverySegmentDeclared ==
    section.result = OkUnit =>
        /\ Len(section.declared) = Len(section.segments)
        /\ \A i \in 1..Len(section.segments) :
              section.declared[i] = DataInitialization(section.segments[i])
        /\ section.events = <<>>

\* The step read, in unreachable state, an `end` that closes a real frame:
\* the arm that decrements real_unreachable_stack_depth.
UnreachableEndOfFrame ==
    /\ pc = "run"
    /\ op'.name = "End"
    /\ in_unreachable_code(state)
    /\ state.phantom_unreachable_stack_depth = 0

\* real_unreachable_stack_depth as the arm has set it when it comes to the
\* decrement.
DepthBeforeDecrement ==
    IF \/ TopFrame.kind = "If"
       \/ following_code(TopFrame) \in state.br_table_reachable_ebbs
    THEN 1
    ELSE state.real_unreachable_stack_depth

\* C37: between two operators, when phantom_unreachable_stack_depth is not
\* 0, real_unreachable_stack_depth is not 0 either; and when the unreachable
\* `end` comes to its decrement of real_unreachable_stack_depth, the depth
\* is at least 1: the translation goes on with the depth less 1.
C37_RealDepthUnderPhantom ==
    [][/\ pc' = "run" =>
             (state'.phantom_unreachable_stack_depth > 0
                 => state'.real_unreachable_stack_depth > 0)
       /\ UnreachableEndOfFrame =>
             /\ DepthBeforeDecrement >= 1
             /\ pc' = "run"
             /\ state'.real_unreachable_stack_depth = DepthBeforeDecrement - 1]_vars

\* After three operators, one of them a br out of the function block from
\* inside a block, the `end` of the block has taken the real depth from 2
\* to 1: the destination of the block is the current EBB.
C37_Witness ==
    /\ pc = "run"
    /\ op.name = "End"
    /\ unreachable_op
    /\ state.phantom_unreachable_stack_depth = 0
    /\ state.real_unreachable_stack_depth = 1
    /\ Len(control_stack) = 1
    /\ opened = <<>>
    /\ nops >= 3
    /\ builder.cur = 3
    /\ BranchesTo(builder, following_code(control_stack[1])) # {}

\* C38: between two operators real_unreachable_stack_depth is at most the
\* number of frames on the control stack.
C38_RealDepthWithinControlStack ==
    pc = "run" => state.real_unreachable_stack_depth <= Len(control_stack)

\* A br out of the function block from inside a block: the real depth is
\* 2, as many as there are frames.
C38_Witness ==
    /\ pc = "run"
    /\ op.name = "Br"
    /\ op.relative_depth = 1
    /\ ~unreachable_op
    /\ state.real_unreachable_stack_depth = 2
    /\ Len(control_stack) = 2

\* C39: between two operators and when EndFunctionBody is read, if
\* last_inst_return is true then the last instruction of the current EBB is
\* a return and the last one that was inserted, the current EBB is filled,
\* and real_unreachable_stack_depth is at least 1.
C39_LastInstReturn ==
    [][/\ (pc' = "run" /\ state'.last_inst_return) =>
             /\ Len(builder'.ebbs[builder'.cur].insts) > 0
             /\ LastInst(builder').opcode = "return"
             /\ is_filled(builder')
             /\ state'.real_unreachable_stack_depth >= 1
       /\ (pc = "run" /\ pc' = "run" /\ state.last_inst_return
              /\ state'.last_inst_return) =>
             Emitted = {} /\ builder'.cur = builder.cur]_vars

\* A block was skipped after a return: its `end` took the phantom depth
\* back to 0, and last_inst_return is still true.
C39_Witness ==
    /\ pc = "run"
    /\ state.last_inst_return
    /\ op.name = "End"
    /\ unreachable_op
    /\ state.phantom_unreachable_stack_depth = 0
    /\ state.real_unreachable_stack_depth = 1
    /\ LastInst(builder).opcode = "return"
    /\ is_filled(builder)

====
